---------------------------- MODULE Spec2Model ----------------------------
(***************************************************************************)
(* A model of crunchbase_orgs/load_organizations.py (class                 *)
(* LoadOrganizations): the e-mail domain extractor, the match resolver     *)
(* (shorten, get_initials, pick_by_matches, pick_match), the store layer   *)
(* (store_one_response and the SQL it issues) and the driver loop          *)
(* (get_each_license).                                                     *)
(*                                                                         *)
(* Python strings are sequences of one-character strings.  Python's None   *)
(* is NoneStr where a string is expected and NoneIx where an index or a    *)
(* row id is expected.  List indices keep Python's 0-based values.         *)
(***************************************************************************)
EXTENDS Integers, Sequences, FiniteSets, TLC

(***************************************************************************)
(* Bounds of the model.                                                    *)
(***************************************************************************)
MaxEmailLen == 5
MaxItems == 2
MaxRecords == 2
MaxCalls == 2

(***************************************************************************)
(* Python str and list primitives.                                         *)
(***************************************************************************)
Str(s) == [i \in 1..Len(s) |-> SubSeq(s, i, i)]

NoneStr == <<"None">>

NoneIx == -1

Falsy(s) == s = NoneStr \/ s = <<>>

UpperChars == Str("ABCDEFGHIJKLMNOPQRSTUVWXYZ")

LowerChars == Str("abcdefghijklmnopqrstuvwxyz")

LowerChar(c) ==
    IF \E i \in 1..Len(UpperChars) : UpperChars[i] = c
    THEN LowerChars[CHOOSE i \in 1..Len(UpperChars) : UpperChars[i] = c]
    ELSE c

lower(s) == [i \in 1..Len(s) |-> LowerChar(s[i])]

\* s.rfind(c): the 0-based index of the last c in s, -1 when there is none
rfind(s, c) ==
    IF \E i \in 1..Len(s) : s[i] = c
    THEN (CHOOSE i \in 1..Len(s) : s[i] = c /\ \A j \in (i + 1)..Len(s) : s[j] # c) - 1
    ELSE -1

\* s[k:] for a 0-based k
slice_from(s, k) == SubSeq(s, k + 1, Len(s))

startswith(s, p) == Len(p) <= Len(s) /\ SubSeq(s, 1, Len(p)) = p

\* p in s, for strings
contains(s, p) == \E i \in 1..(Len(s) - Len(p) + 1) : SubSeq(s, i, i + Len(p) - 1) = p

\* x in lst, for lists
InList(x, lst) == \E i \in 1..Len(lst) : lst[i] = x

RECURSIVE rstrip(_, _)
rstrip(s, c) ==
    IF Len(s) > 0 /\ s[Len(s)] = c THEN rstrip(SubSeq(s, 1, Len(s) - 1), c) ELSE s

RECURSIVE lstrip(_, _)
lstrip(s, c) ==
    IF Len(s) > 0 /\ s[1] = c THEN lstrip(Tail(s), c) ELSE s

\* s.strip(): the only whitespace of the model's alphabet is the space
strip(s) == lstrip(rstrip(s, " "), " ")

\* s.replace(c, '')
RECURSIVE remove_char(_, _)
remove_char(s, c) ==
    IF s = <<>> THEN <<>>
    ELSE IF Head(s) = c THEN remove_char(Tail(s), c)
    ELSE <<Head(s)>> \o remove_char(Tail(s), c)

\* s.split(c): a separator at either end or two in a row give empty strings
RECURSIVE split_on(_, _)
split_on(s, c) ==
    IF \A i \in 1..Len(s) : s[i] # c THEN <<s>>
    ELSE LET k == CHOOSE i \in 1..Len(s) : s[i] = c /\ \A j \in 1..(i - 1) : s[j] # c
         IN <<SubSeq(s, 1, k - 1)>> \o split_on(SubSeq(s, k + 1, Len(s)), c)

\* c.join(word_list)
RECURSIVE join(_, _)
join(word_list, c) ==
    IF word_list = <<>> THEN <<>>
    ELSE IF Len(word_list) = 1 THEN word_list[1]
    ELSE word_list[1] \o <<c>> \o join(Tail(word_list), c)

\* s.split(): runs of whitespace separate, and no empty string is produced
split_ws(s) == SelectSeq(split_on(s, " "), LAMBDA w : w # <<>>)


(***************************************************************************)
(* get_domain_from(email)                                                  *)
(***************************************************************************)
get_domain_from(email) ==
    LET at_sign_ix == rfind(email, "@")
        dot_ix == rfind(email, ".")
        domain == IF at_sign_ix > 0 /\ dot_ix > at_sign_ix + 1
                  THEN slice_from(email, at_sign_ix + 1)
                  ELSE NoneStr
    IN IF ~Falsy(domain) /\ contains(domain, <<"@">>) THEN NoneStr ELSE domain

(***************************************************************************)
(* The reference data read from ISP_FILE and TLD_FILE: lists of lower-case *)
(* names.  The TLD list is kept in self.tlds, a field of the object, which *)
(* the model holds from the start (shorten loads it before its first use). *)
(***************************************************************************)
isp_domains == {Str("isp.com")}

TldFile == {Str("com"), Str("co"), Str("inc")}

\* self.tlds: the set shorten() looks names up in, read from TLD_FILE
VARIABLE tlds

(***************************************************************************)
(* shorten(domain)                                                         *)
(***************************************************************************)
\* mutant: the last segment is looked up as it is written
RECURSIVE drop_tlds_case_sensitive(_)
drop_tlds_case_sensitive(domain_word_list) ==
    IF Len(domain_word_list) > 1 /\ domain_word_list[Len(domain_word_list)] \in tlds
    THEN drop_tlds_case_sensitive(SubSeq(domain_word_list, 1, Len(domain_word_list) - 1))
    ELSE domain_word_list

RECURSIVE drop_tlds(_)
drop_tlds(domain_word_list) ==
    IF Len(domain_word_list) > 1 /\ lower(domain_word_list[Len(domain_word_list)]) \in tlds
    THEN drop_tlds(SubSeq(domain_word_list, 1, Len(domain_word_list) - 1))
    ELSE domain_word_list

\* mutant: the whole remainder is returned, not its rightmost segment
shorten_whole(domain) == join(drop_tlds(split_on(rstrip(domain, "."), ".")), ".")

shorten(domain) ==
    LET domain_word_list == drop_tlds(split_on(rstrip(domain, "."), "."))
    IN IF Len(domain_word_list) > 0 THEN domain_word_list[Len(domain_word_list)] ELSE <<>>

(***************************************************************************)
(* get_initials(input_string)                                              *)
(***************************************************************************)
\* mutant: only the first character of a word is taken, never a space
RECURSIVE initials_of_words_from(_, _)
initials_of_words_from(input_string, i) ==
    IF i > Len(input_string) THEN <<>>
    ELSE (IF input_string[i - 1] = " " /\ input_string[i] # " "
          THEN <<input_string[i]>> ELSE <<>>)
         \o initials_of_words_from(input_string, i + 1)

RECURSIVE initials_from(_, _)
initials_from(input_string, i) ==
    IF i > Len(input_string) THEN <<>>
    ELSE (IF input_string[i - 1] = " " THEN <<input_string[i]>> ELSE <<>>)
         \o initials_from(input_string, i + 1)

get_initials(input_string) ==
    IF input_string = <<>> THEN <<>>
    ELSE <<input_string[1]>> \o initials_from(input_string, 2)

(***************************************************************************)
(* check_mismatches_are_at_end_of_response_list: the truth value of what   *)
(* it returns.                                                             *)
(***************************************************************************)
RECURSIVE leading_run(_, _, _)
leading_run(company_word_list, response_word_list, ix) ==
    IF company_word_list[ix + 1] = response_word_list[ix + 1]
    THEN IF ix + 1 = Len(company_word_list) \/ ix + 1 = Len(response_word_list)
         THEN ix + 1
         ELSE leading_run(company_word_list, response_word_list, ix + 1)
    ELSE ix

check_mismatches_are_at_end_of_response_list(company_word_list, response_word_list, ct_word_mismatches) ==
    IF company_word_list = <<>> \/ response_word_list = <<>> THEN FALSE
    ELSE LET ct_word_matches == leading_run(company_word_list, response_word_list, 0)
         IN ct_word_matches # 0
            /\ ct_word_matches + ct_word_mismatches = Len(response_word_list)

(***************************************************************************)
(* pick_by_matches(ix, response_item, company_word_list): the pair         *)
(* (candidate_list, pick_ix_list) it returns.                              *)
(***************************************************************************)
ct_matches(company_word_list, response_word_list) ==
    Cardinality({i \in 1..Len(company_word_list) :
                    InList(company_word_list[i], response_word_list)})

pick_by_matches(ix, response_item, company_word_list) ==
    LET original_response == response_item.name
        response == IF rfind(original_response, ".") # -1
                    THEN shorten(original_response) ELSE original_response
        response_word_list == split_ws(lower(response))
        ct_word_matches == ct_matches(company_word_list, response_word_list)
        ct_word_mismatches == Len(response_word_list) - ct_word_matches
    IN IF ct_word_matches # 0 /\ ct_word_mismatches = 0
       THEN [candidate_list |-> <<original_response>>, pick_ix_list |-> <<ix>>]
       ELSE IF check_mismatches_are_at_end_of_response_list(
                   company_word_list, response_word_list, ct_word_mismatches)
       THEN [candidate_list |-> <<original_response>>, pick_ix_list |-> <<ix>>]
       ELSE [candidate_list |-> <<>>, pick_ix_list |-> <<>>]

(***************************************************************************)
(* pick_match(company, domain, query_response_dict): items is the list     *)
(* query_response_dict['data']['items'], each item its properties.         *)
(***************************************************************************)
VentureStr == Str("Venture")

\* the name pick_match compares: stripped, and shortened when it holds a dot
response_of(response_item) ==
    LET original_response == strip(response_item.name)
    IN IF rfind(original_response, ".") # -1
       THEN shorten(original_response) ELSE original_response

is_exact(response, domain) == lower(response) = lower(domain)

is_prefix(response, domain) == startswith(lower(response), lower(domain))

\* mutant: the initials are compared as they are written
is_initials_case_sensitive(response, domain) == get_initials(response) = domain

is_initials(response, domain) == lower(get_initials(response)) = lower(domain)

is_venture(response, domain) ==
    contains(response, VentureStr) /\ ~contains(domain, VentureStr)

is_no_spaces_exact(response, domain) ==
    remove_char(lower(response), " ") = lower(domain)

\* mutant: the spaces are left in the name
is_no_spaces_prefix_with_spaces(response, domain) ==
    startswith(lower(response), lower(domain))

is_no_spaces_prefix(response, domain) ==
    startswith(remove_char(lower(response), " "), lower(domain))

\* list.append(x) unless x is in the list
append_new(lst, x) == IF InList(x, lst) THEN lst ELSE Append(lst, x)

RECURSIVE merge_new(_, _)
merge_new(lst, temp) ==
    IF temp = <<>> THEN lst ELSE merge_new(append_new(lst, Head(temp)), Tail(temp))

\* mutant: the match is recorded at the head of the response list
we_have_a_match_at_head(original_response, ix) ==
    [candidate_list |-> <<original_response>>, pick_ix_list |-> <<0>>, broke_at |-> ix]

\* candidate_list = [original_response]; pick_ix_list = [ix]; break
we_have_a_match(original_response, ix) ==
    [candidate_list |-> <<original_response>>, pick_ix_list |-> <<ix>>, broke_at |-> ix]

\* the for loop from item ix on; broke_at is the index of the item the
\* loop left by break, NoneIx when it ran to the end
RECURSIVE pick_scan(_, _, _, _, _, _)
pick_scan(company_word_list, domain, items, ix, candidate_list, pick_ix_list) ==
    IF ix >= Len(items)
    THEN [candidate_list |-> candidate_list, pick_ix_list |-> pick_ix_list,
          broke_at |-> NoneIx]
    ELSE
    LET response_item == items[ix + 1]
        original_response == strip(response_item.name)
        response == response_of(response_item)
        match == we_have_a_match(original_response, ix)
        add1 == is_prefix(response, domain) /\ ~InList(original_response, candidate_list)
        cand1 == IF add1 THEN Append(candidate_list, original_response) ELSE candidate_list
        pick1 == IF add1 THEN Append(pick_ix_list, ix) ELSE pick_ix_list
        add2 == is_no_spaces_prefix(response, domain) /\ ~InList(original_response, cand1)
        cand2 == IF add2 THEN Append(cand1, original_response) ELSE cand1
        pick2 == IF add2 THEN Append(pick1, ix) ELSE pick1
        temp == pick_by_matches(ix, response_item, company_word_list)
    IN IF is_exact(response, domain) THEN match
       ELSE IF is_initials(response, domain) THEN match
       ELSE IF is_venture(response, domain)
       THEN pick_scan(company_word_list, domain, items, ix + 1, cand1, pick1)
       ELSE IF is_no_spaces_exact(response, domain) THEN match
       ELSE pick_scan(company_word_list, domain, items, ix + 1,
                      merge_new(cand2, temp.candidate_list),
                      merge_new(pick2, temp.pick_ix_list))

\* mutant: the first accumulated candidate is returned whatever their number
pick_return_first(scan) ==
    IF Len(scan.pick_ix_list) >= 1
    THEN [ix |-> scan.pick_ix_list[1], name |-> scan.candidate_list[1]]
    ELSE [ix |-> NoneIx, name |-> NoneStr]

\* the return statements after the loop
pick_return(scan) ==
    IF Len(scan.pick_ix_list) = 1
    THEN [ix |-> scan.pick_ix_list[1], name |-> scan.candidate_list[1]]
    ELSE [ix |-> NoneIx, name |-> NoneStr]

\* mutant: the candidates are scanned whatever the length of the company name
pick_match_of_any_company(company, domain, items) ==
    pick_return(pick_scan(split_on(lower(company), " "), domain, items, 0, <<>>, <<>>))

pick_match(company, domain, items) ==
    IF Len(company) < 2 THEN [ix |-> NoneIx, name |-> NoneStr]
    ELSE pick_return(pick_scan(split_on(lower(company), " "), domain, items, 0,
                               <<>>, <<>>))

\* retrieve_pick(company, domain, response_dict): pick_match on the
\* shortened domain; (None, None) unless a name was picked
retrieve_pick(company, domain, items) ==
    LET pick == pick_match(company, shorten(domain), items)
    IN IF ~Falsy(pick.name) THEN pick ELSE [ix |-> NoneIx, name |-> NoneStr]


(***************************************************************************)
(* The relational store.  A pn_organizations row is [id, name, domain,     *)
(* data, pgres_last_updated], data standing for the row's other columns    *)
(* (primary_role .. updated_at) taken together; a                          *)
(* pn_license_contact_details row is [id, company]; a pn_licenses row is   *)
(* [id, license_contact_details_id, organizations_id], NoneIx being NULL.  *)
(* Each statement is committed where the code commits it.                  *)
(***************************************************************************)
\* self.cur_time, set once by __init__; rows of earlier runs hold 0
cur_time == 1

\* setup_data_item_org(single_response)
setup_data_item_org(single_response) ==
    [name |-> single_response.name,
     domain |-> rstrip(single_response.domain, "/"),
     data |-> single_response.data,
     pgres_last_updated |-> cur_time]

\* mutant: no domain is reported as stored
get_already_stored_nothing(orgs) == {}

\* get_already_stored(pg_conn): SELECT domain FROM pn_organizations
get_already_stored(orgs) == {o.domain : o \in orgs}

\* do_store_part_1: INSERT INTO pn_organizations ...; the new row takes the
\* next value of the id sequence
do_store_part_1(orgs, new_id, data_item_org) ==
    orgs \cup {[id |-> new_id, name |-> data_item_org.name,
                domain |-> data_item_org.domain, data |-> data_item_org.data,
                pgres_last_updated |-> data_item_org.pgres_last_updated]}

\* get_organization_id: SELECT id FROM pn_organizations WHERE name = %s,
\* then fetchone(): the ids it may return (the query states no order)
get_organization_id(orgs, single_response) ==
    IF \E o \in orgs : o.name = single_response.name
    THEN {o.id : o \in {r \in orgs : r.name = single_response.name}}
    ELSE {NoneIx}

\* get_license_contact_details_id_list: the ids of the rows of the company
get_license_contact_details_id_list(lcds, company) ==
    {l.id : l \in {r \in lcds : r.company = company}}

\* do_store_part_2: UPDATE pn_licenses SET organizations_id = %s
\*                  WHERE license_contact_details_id = %s
do_store_part_2(lics, org_id, lic_ct_id) ==
    {IF l.license_contact_details_id = lic_ct_id
     THEN [l EXCEPT !.organizations_id = org_id] ELSE l : l \in lics}

rowcount_part_2(lics, lic_ct_id) ==
    Cardinality({l \in lics : l.license_contact_details_id = lic_ct_id})

\* The scalar subquery of remove_company_from_orgs:
\*   SELECT DISTINCT l.organizations_id FROM pn_organizations o2
\*   LEFT JOIN pn_licenses l ON l.organizations_id = o2.id WHERE o2.name = %s
\* a row per organization id of that name a licence refers to, and a NULL
\* row when an organization of that name has no licence
linked_ids_of_name(orgs, lics, name) ==
    {o.id : o \in {r \in orgs : r.name = name /\ \E l \in lics : l.organizations_id = r.id}}
    \cup (IF \E r \in orgs : r.name = name /\ \A l \in lics : l.organizations_id # r.id
          THEN {NoneIx} ELSE {})

\* remove_company_from_orgs(conn, company): DELETE FROM pn_organizations o
\* WHERE o.name = %s AND (subquery) IS NULL.  A scalar subquery of more than
\* one row is an SQL error, raised by cursor.execute and caught nowhere.
remove_raises(orgs, lics, name) ==
    Cardinality(linked_ids_of_name(orgs, lics, name)) > 1

remove_company_from_orgs(orgs, lics, name) ==
    IF linked_ids_of_name(orgs, lics, name) \subseteq {NoneIx}
    THEN {o \in orgs : o.name # name}
    ELSE orgs

\* mutant: the comparison takes in the time of the last synchronisation
is_item_different_with_time(row, data_item_org) ==
    <<row.name, row.domain, row.data, row.pgres_last_updated>>
        # <<data_item_org.name, data_item_org.domain, data_item_org.data, 0>>

\* is_item_different(cursor, data_item_org_augmented), for the row fetched
is_item_different(row, data_item_org) ==
    <<row.name, row.domain, row.data>>
        # <<data_item_org.name, data_item_org.domain, data_item_org.data>>

\* mutant: the UPDATE leaves the name and the other columns as they were
update_rows_time_only(orgs, data_item_org) ==
    {IF o.domain = data_item_org.domain
     THEN [o EXCEPT !.pgres_last_updated = data_item_org.pgres_last_updated]
     ELSE o : o \in orgs}

\* the UPDATE of do_update: every row of the domain takes the item's values
update_rows(orgs, data_item_org) ==
    {IF o.domain = data_item_org.domain
     THEN [o EXCEPT !.name = data_item_org.name, !.data = data_item_org.data,
                    !.pgres_last_updated = data_item_org.pgres_last_updated]
     ELSE o : o \in orgs}

\* What a call of store_one_response leaves: the tables, the id sequence,
\* ct_stored, the value returned (ret), the writing SQL statements sent to
\* the store in order (sql), and whether an exception left the call (raised).
Outcome(orgs, lics, new_id, ct, ret, sql, raised) ==
    [pn_organizations |-> orgs, pn_licenses |-> lics, next_org_id |-> new_id,
     ct_stored |-> ct, ret |-> ret, sql |-> sql, raised |-> raised]

\* mutant: a call that updated the row returns True
do_update_returning_true(orgs, lics, new_id, ct, data_item_org) ==
    {IF ~is_item_different(row, data_item_org)
     THEN Outcome(orgs, lics, new_id, ct, FALSE, <<>>, FALSE)
     ELSE LET rowcount == Cardinality({o \in orgs : o.domain = data_item_org.domain})
          IN Outcome(update_rows(orgs, data_item_org), lics, new_id,
                     IF rowcount = 1 THEN ct + 1 ELSE ct,
                     TRUE, <<"UPDATE pn_organizations">>, FALSE)
     : row \in {o \in orgs : o.domain = data_item_org.domain}}

\* do_update(conn, data_item_org): the outcomes of the update branch
do_update(orgs, lics, new_id, ct, data_item_org) ==
    {IF ~is_item_different(row, data_item_org)
     THEN Outcome(orgs, lics, new_id, ct, FALSE, <<>>, FALSE)
     ELSE LET rowcount == Cardinality({o \in orgs : o.domain = data_item_org.domain})
          IN Outcome(update_rows(orgs, data_item_org), lics, new_id,
                     IF rowcount = 1 THEN ct + 1 ELSE ct,
                     FALSE, <<"UPDATE pn_organizations">>, FALSE)
     : row \in {o \in orgs : o.domain = data_item_org.domain}}

\* mutant: an insert that is removed again is counted as stored
remove_inserted_counted(orgs, lics, new_id, ct, name, sql) ==
    IF remove_raises(orgs, lics, name)
    THEN Outcome(orgs, lics, new_id, ct + 1, FALSE,
                 Append(sql, "DELETE pn_organizations"), TRUE)
    ELSE Outcome(remove_company_from_orgs(orgs, lics, name), lics, new_id, ct + 1, FALSE,
                 Append(sql, "DELETE pn_organizations"), FALSE)

\* the branch of store_one_response that removes the row just inserted
remove_inserted(orgs, lics, new_id, ct, name, sql) ==
    IF remove_raises(orgs, lics, name)
    THEN Outcome(orgs, lics, new_id, ct, FALSE,
                 Append(sql, "DELETE pn_organizations"), TRUE)
    ELSE Outcome(remove_company_from_orgs(orgs, lics, name), lics, new_id, ct, FALSE,
                 Append(sql, "DELETE pn_organizations"), FALSE)

\* the branch of store_one_response that inserts and links
do_store(orgs, lcds, lics, new_id, ct, single_response, company, data_item_org) ==
    LET orgs1 == do_store_part_1(orgs, new_id, data_item_org)
        sql1 == <<"INSERT pn_organizations">>
        license_contact_details_id_list ==
            get_license_contact_details_id_list(lcds, company)
    IN IF Cardinality(license_contact_details_id_list) = 1
       THEN LET license_contact_details_id ==
                    CHOOSE x \in license_contact_details_id_list : TRUE
                stored_part_2 == rowcount_part_2(lics, license_contact_details_id)
            IN {IF stored_part_2 # 0
                THEN Outcome(orgs1,
                             do_store_part_2(lics, organization_id,
                                             license_contact_details_id),
                             new_id + 1, ct + 1, TRUE,
                             Append(sql1, "UPDATE pn_licenses"), FALSE)
                ELSE remove_inserted(orgs1, lics, new_id + 1, ct,
                                     single_response.name,
                                     Append(sql1, "UPDATE pn_licenses"))
                : organization_id \in get_organization_id(orgs1, single_response)}
       ELSE {remove_inserted(orgs1, lics, new_id + 1, ct, single_response.name, sql1)}

\* store_one_response(single_response, company): its possible outcomes
store_one_response(orgs, lcds, lics, new_id, ct, single_response, company) ==
    IF Falsy(single_response.name) \/ Falsy(single_response.domain)
    THEN {Outcome(orgs, lics, new_id, ct, FALSE, <<>>, FALSE)}
    ELSE LET data_item_org == setup_data_item_org(single_response)
         IN IF data_item_org.domain \in get_already_stored(orgs)
            THEN do_update(orgs, lics, new_id, ct, data_item_org)
            ELSE do_store(orgs, lcds, lics, new_id, ct, single_response, company,
                          data_item_org)

(***************************************************************************)
(* State.  pc is the position of the run.  email and company are the       *)
(* record being handled, domain the domain extracted from the e-mail (for  *)
(* pick_match: the shortened domain it is given), items the items of the   *)
(* provider's response, pick what pick_match or retrieve_pick returned,    *)
(* stored what handle_non_isp_domain returns.                              *)
(* The three tables and the id sequence of pn_organizations are the store. *)
(* calls lists the calls of store_one_response made so far, requests the   *)
(* queries sent to the provider, responses what the provider answered to   *)
(* those of the record being handled (domain_response_dict and             *)
(* name_response_dict), slept the sleeps taken, warnings the records       *)
(* logging.warning wrote, backoff_multiplier the local of                  *)
(* connect_to_cb_or_die, and exit_code the exit status of the process      *)
(* (NoneIx while it runs).  The other variables are the attributes of      *)
(* LoadOrganizations of the same name.                                     *)
(***************************************************************************)
VARIABLES pc, email, company, domain, items, pick, stored,
          pn_organizations, pn_license_contact_details, pn_licenses, next_org_id,
          ct_stored, calls,
          items_examined, items_skipped, items_not_skipped, ct_isps,
          domain_misses, single_domain_hits, multiple_domain_hits,
          name_misses, single_name_hits, multiple_name_hits,
          ct_name_queries, repeat_domains, domains_queried,
          requests, responses, slept, warnings, backoff_multiplier, exit_code

fnVars == <<email, company, domain, items, pick, stored>>

storeVars == <<pn_organizations, pn_license_contact_details, pn_licenses, next_org_id,
               ct_stored, calls>>

domainTallies == <<domain_misses, single_domain_hits, multiple_domain_hits>>

nameTallies == <<name_misses, single_name_hits, multiple_name_hits, ct_name_queries>>

counters == <<items_examined, items_skipped, items_not_skipped, ct_isps,
              domainTallies, nameTallies, repeat_domains, domains_queried>>

logs == <<requests, responses, slept, warnings>>

runVars == <<counters, logs, backoff_multiplier, exit_code>>

\* the local variables of a running call of
\* check_mismatches_are_at_end_of_response_list
VARIABLE frame

\* nothing was returned yet
NoValue == [type |-> "none", value |-> 0]

NoFrame == [company_word_list |-> <<>>, response_word_list |-> <<>>,
            ct_word_mismatches |-> 0, ct_word_matches |-> 0, ix |-> 0,
            ret |-> NoValue]

\* LoadLicenses: the licences of the Marketplace export and the index of
\* the one at work, the five key sets, the tables as the connection of the
\* run sees them and as they were last committed, the id the store gives
\* the next row, the statements of the runs, and the insert and update
\* counters; run_no is 0 while no LoadLicenses exists
VARIABLES run_no, mkt_data, mkt_ix, contacts_key_set, addons_key_set,
          partner_details_key_set, lcd_key_set, license_key_set,
          tables, committed, next_row_id, sql_log, ct_writes

keySets == <<contacts_key_set, addons_key_set, partner_details_key_set, lcd_key_set,
             license_key_set>>

licVars == <<run_no, mkt_data, mkt_ix, keySets, tables, committed, next_row_id,
             sql_log, ct_writes>>

vars == <<pc, tlds, frame, licVars, fnVars, storeVars, runVars>>

NoPick == [ix |-> NoneIx, name |-> NoneStr]

\* the five tables LoadLicenses fills, with no row
EmptyTables ==
    [pn_contacts |-> {}, pn_addons |-> {}, pn_partner_details |-> {},
     pn_license_contact_details |-> {}, pn_licenses |-> {}]

\* LoadLicenses.__init__: the key sets and the counters of a new
\* LoadLicenses
NewCounters ==
    [ct_insert_bill_contacts |-> 0, ct_update_bill_contacts |-> 0,
     ct_insert_tech_contacts |-> 0, ct_update_tech_contacts |-> 0,
     ct_insert_addons |-> 0, ct_update_addons |-> 0,
     ct_insert_partner_det |-> 0, ct_update_partner_det |-> 0,
     ct_insert_lcd |-> 0, ct_update_lcd |-> 0,
     ct_insert_license |-> 0, ct_update_license |-> 0]

\* no LoadLicenses was made, and its tables are empty
NoLicenses ==
    /\ run_no = 0
    /\ mkt_data = <<>>
    /\ mkt_ix = 0
    /\ contacts_key_set = {}
    /\ addons_key_set = {}
    /\ partner_details_key_set = {}
    /\ lcd_key_set = {}
    /\ license_key_set = {}
    /\ tables = EmptyTables
    /\ committed = EmptyTables
    /\ next_row_id = 1
    /\ sql_log = <<>>
    /\ ct_writes = NewCounters

\* __init__: the counters and the caches of a new LoadOrganizations
InitRun ==
    /\ items_examined = 0
    /\ items_skipped = 0
    /\ items_not_skipped = 0
    /\ ct_isps = 0
    /\ domain_misses = 0
    /\ single_domain_hits = 0
    /\ multiple_domain_hits = 0
    /\ name_misses = 0
    /\ single_name_hits = 0
    /\ multiple_name_hits = 0
    /\ ct_name_queries = 0
    /\ repeat_domains = 0
    /\ domains_queried = {}
    /\ requests = <<>>
    /\ responses = <<>>
    /\ slept = <<>>
    /\ warnings = <<>>
    /\ backoff_multiplier = 1
    /\ exit_code = NoneIx

\* the store before anything was loaded into it
EmptyStore ==
    /\ pn_organizations = {}
    /\ pn_license_contact_details = {}
    /\ pn_licenses = {}
    /\ next_org_id = 1
    /\ ct_stored = 0
    /\ calls = <<>>

(***************************************************************************)
(* SpecEmail: get_domain_from on every e-mail over EmailChars of at most   *)
(* MaxEmailLen characters.                                                 *)
(***************************************************************************)
EmailChars == {"a", "@", "."}

Emails == UNION {[1..k -> EmailChars] : k \in 0..MaxEmailLen}

InitEmail ==
    /\ pc = "call"
    /\ email \in Emails
    /\ company = <<>>
    /\ domain = NoneStr
    /\ items = <<>>
    /\ pick = NoPick
    /\ stored = FALSE
    /\ EmptyStore
    /\ InitRun
    /\ frame = NoFrame
    /\ NoLicenses
    /\ tlds = TldFile

GetDomainFrom ==
    /\ pc = "call"
    /\ domain' = get_domain_from(email)
    /\ pc' = "returned"
    /\ UNCHANGED <<tlds, frame, licVars, email, company, items, pick, stored, storeVars, runVars>>

NextEmail == GetDomainFrom

SpecEmail == InitEmail /\ [][NextEmail]_vars

(***************************************************************************)
(* SpecShorten: shorten on every name over DomainChars of at most          *)
(* MaxDomainLen characters and on the docstring's kind of name, for every  *)
(* TLD_FILE listing some of TldNames; the result is shortened once more.   *)
(***************************************************************************)
MaxDomainLen == 5

DomainChars == {"a", "A", "c", "."}

TldNames == {Str("ca"), Str("co"), Str("inc")}

DomainNames ==
    UNION {[1..k -> DomainChars] : k \in 0..MaxDomainLen} \cup {Str("Example.Co.Inc.")}

InitShorten ==
    /\ pc = "call"
    /\ tlds \in SUBSET TldNames
    /\ email = <<>>
    /\ company \in DomainNames
    /\ domain = company
    /\ items = <<>>
    /\ pick = NoPick
    /\ stored = FALSE
    /\ EmptyStore
    /\ InitRun
    /\ frame = NoFrame
    /\ NoLicenses

\* domain = self.shorten(domain)
Shorten ==
    /\ pc \in {"call", "once"}
    /\ domain' = shorten(domain)
    /\ pc' = IF pc = "call" THEN "once" ELSE "twice"
    /\ UNCHANGED <<tlds, frame, licVars, email, company, items, pick, stored, storeVars, runVars>>

NextShorten == Shorten

SpecShorten == InitShorten /\ [][NextShorten]_vars

(***************************************************************************)
(* SpecInitials: get_initials on every name over NameChars of at most      *)
(* MaxNameLen characters and on a three-word company name.                 *)
(***************************************************************************)
MaxNameLen == 5

NameChars == {"a", "B", " "}

InitialsNames ==
    UNION {[1..k -> NameChars] : k \in 0..MaxNameLen}
        \cup {Str("International Business Machines")}

InitInitials ==
    /\ pc = "call"
    /\ email = <<>>
    /\ company \in InitialsNames
    /\ domain = NoneStr
    /\ items = <<>>
    /\ pick = NoPick
    /\ stored = FALSE
    /\ EmptyStore
    /\ InitRun
    /\ frame = NoFrame
    /\ NoLicenses
    /\ tlds = TldFile

\* response_initials = self.get_initials(response)
GetInitials ==
    /\ pc = "call"
    /\ domain' = get_initials(company)
    /\ pc' = "returned"
    /\ UNCHANGED <<tlds, frame, licVars, email, company, items, pick, stored, storeVars, runVars>>

NextInitials == GetInitials

SpecInitials == InitInitials /\ [][NextInitials]_vars

(***************************************************************************)
(* SpecWords: pick_by_matches, as pick_match calls it, on every candidate  *)
(* name of at most MaxWords words of ResponseWords, for every company name *)
(* of at most MaxWords words of CompanyWords separated by single spaces    *)
(* (the empty word makes a leading, a trailing or a second space).         *)
(***************************************************************************)
MaxWords == 3

CompanyWords == {Str("Acme"), Str("Corp"), <<>>}

ResponseWords == {Str("Acme"), Str("corp"), Str("Ltd")}

WordLists(S) == UNION {[1..k -> S] : k \in 1..MaxWords}

InitWords ==
    /\ pc = "call"
    /\ email = <<>>
    /\ company \in {join(word_list, " ") : word_list \in WordLists(CompanyWords)}
    /\ domain = NoneStr
    /\ items \in {<<[name |-> join(word_list, " "), domain |-> Str("acme.com"), data |-> 1]>> :
                      word_list \in WordLists(ResponseWords)}
    /\ pick = NoPick
    /\ stored = FALSE
    /\ EmptyStore
    /\ InitRun
    /\ frame = NoFrame
    /\ NoLicenses
    /\ tlds = TldFile

\* company_word_list = company.lower().split(' ') and, for the item at
\* index 0, self.pick_by_matches(ix, response_item, company_word_list)
PickByMatches ==
    /\ pc = "call"
    /\ LET temp == pick_by_matches(0, items[1], split_on(lower(company), " "))
       IN pick' = IF temp.pick_ix_list = <<>> THEN NoPick
                  ELSE [ix |-> temp.pick_ix_list[1], name |-> temp.candidate_list[1]]
    /\ pc' = "returned"
    /\ UNCHANGED <<tlds, frame, licVars, email, company, domain, items, stored, storeVars, runVars>>

NextWords == PickByMatches

SpecWords == InitWords /\ [][NextWords]_vars

(***************************************************************************)
(* SpecMismatches: check_mismatches_are_at_end_of_response_list, a         *)
(* statement at a time, on every pair of lists of at most MaxWords words   *)
(* of CheckWords (the empty list among them) and every count of            *)
(* mismatches pick_by_matches can pass for such a pair.  pc is the         *)
(* statement to run next; "IndexError" is a subscript beyond a list.       *)
(***************************************************************************)
CheckWords == {Str("acme"), Str("corp")}

CheckLists == {<<>>} \cup WordLists(CheckWords)

\* what the function returned: the int ct_word_matches when that is 0 (the
\* left operand of "and"), else the bool of the comparison
IntValue(n) == [type |-> "int", value |-> n]

BoolValue(b) == [type |-> "bool", value |-> b]

InitMismatches ==
    /\ pc = "if"
    /\ email = <<>>
    /\ company = <<>>
    /\ domain = NoneStr
    /\ items = <<>>
    /\ pick = NoPick
    /\ stored = FALSE
    /\ EmptyStore
    /\ InitRun
    /\ NoLicenses
    /\ tlds = TldFile
    /\ \E company_word_list \in CheckLists, response_word_list \in CheckLists :
          \E ct_word_mismatches \in (0 - MaxWords)..MaxWords :
             frame = [company_word_list |-> company_word_list,
                      response_word_list |-> response_word_list,
                      ct_word_mismatches |-> ct_word_mismatches,
                      ct_word_matches |-> 0, ix |-> 0, ret |-> NoValue]

\* mutant: the loop is left at the end of company_word_list only
loop_breaks_at_company_end(ix, company_word_list, response_word_list) ==
    ix = Len(company_word_list)

\* if ix == len(company_word_list) or ix == len(response_word_list): break
loop_breaks(ix, company_word_list, response_word_list) ==
    ix = Len(company_word_list) \/ ix = Len(response_word_list)

\* if not company_word_list or not response_word_list: return False;
\* else ct_word_matches = 0 and ix = 0
CheckEmpty ==
    /\ pc = "if"
    /\ IF frame.company_word_list = <<>> \/ frame.response_word_list = <<>>
       THEN /\ pc' = "returned"
            /\ frame' = [frame EXCEPT !.ret = BoolValue(FALSE)]
       ELSE /\ pc' = "while"
            /\ frame' = [frame EXCEPT !.ct_word_matches = 0, !.ix = 0]
    /\ UNCHANGED <<tlds, licVars, fnVars, storeVars, runVars>>

\* while company_word_list[ix] == response_word_list[ix]: the two
\* subscripts, then the comparison
WhileTest ==
    /\ pc = "while"
    /\ IF frame.ix >= Len(frame.company_word_list)
          \/ frame.ix >= Len(frame.response_word_list)
       THEN pc' = "IndexError"
       ELSE IF frame.company_word_list[frame.ix + 1] = frame.response_word_list[frame.ix + 1]
       THEN pc' = "body"
       ELSE pc' = "return"
    /\ UNCHANGED <<tlds, frame, licVars, fnVars, storeVars, runVars>>

\* ct_word_matches += 1; ix += 1; the break
WhileBody ==
    /\ pc = "body"
    /\ frame' = [frame EXCEPT !.ct_word_matches = @ + 1, !.ix = @ + 1]
    /\ pc' = IF loop_breaks(frame.ix + 1, frame.company_word_list,
                            frame.response_word_list)
             THEN "return" ELSE "while"
    /\ UNCHANGED <<tlds, licVars, fnVars, storeVars, runVars>>

\* return ct_word_matches and ct_word_matches + ct_word_mismatches ==
\* len(response_word_list)
ReturnCheck ==
    /\ pc = "return"
    /\ frame' = [frame EXCEPT !.ret =
                    IF frame.ct_word_matches = 0 THEN IntValue(0)
                    ELSE BoolValue(frame.ct_word_matches + frame.ct_word_mismatches
                                      = Len(frame.response_word_list))]
    /\ pc' = "returned"
    /\ UNCHANGED <<tlds, licVars, fnVars, storeVars, runVars>>

NextMismatches == CheckEmpty \/ WhileTest \/ WhileBody \/ ReturnCheck

SpecMismatches == InitMismatches /\ [][NextMismatches]_vars

\* the interpreter runs the statement at pc as long as there is one
FairSpecMismatches == SpecMismatches /\ WF_vars(NextMismatches)

(***************************************************************************)
(* SpecPick: pick_match on every response list of at most MaxItems items   *)
(* named from PickNames, for the companies and shortened domains below.    *)
(***************************************************************************)
PickNames ==
    {Str("Acme"), Str("Acme Corp"), Str("Acme Industries"), Str("Acme Ventures"),
     Str("Ac me"), Str("acme.com"), Str("Zed Corp"), Str("Acme Corp "),
     Str("Ac me Corp"), Str("Ac me Ventures"), Str("A C M E")}

PickCompanies == {Str("A"), Str("Acme Corp"), Str("Zed Corp"), Str("Zed")}

PickDomains == {Str("acme"), Str("ac"), Str("zed"), Str("Venture")}

PickItems ==
    [name : PickNames, domain : {Str("acme.com")}, data : {1}]

ItemLists(S, n) == UNION {[1..k -> S] : k \in 0..n}

InitPick ==
    /\ pc = "call"
    /\ email = <<>>
    /\ company \in PickCompanies
    /\ domain \in PickDomains
    /\ items \in ItemLists(PickItems, MaxItems)
    /\ pick = NoPick
    /\ stored = FALSE
    /\ EmptyStore
    /\ InitRun
    /\ frame = NoFrame
    /\ NoLicenses
    /\ tlds = TldFile

PickMatch ==
    /\ pc = "call"
    /\ pick' = pick_match(company, domain, items)
    /\ pc' = "returned"
    /\ UNCHANGED <<tlds, frame, licVars, email, company, domain, items, stored, storeVars, runVars>>

NextPick == PickMatch

SpecPick == InitPick /\ [][NextPick]_vars

(***************************************************************************)
(* The tables the licence loader filled before the run: the contact        *)
(* details of three companies (one row, two rows, and one row no licence   *)
(* refers to) and their licences.                                          *)
(***************************************************************************)
LoadedContactDetails ==
    {[id |-> 1, company |-> Str("Acme Corp")],
     [id |-> 2, company |-> Str("Zed Corp")],
     [id |-> 3, company |-> Str("Zed Corp")],
     [id |-> 4, company |-> Str("Lone Corp")]}

LoadedLicenses ==
    {[id |-> 1, license_contact_details_id |-> 1, organizations_id |-> NoneIx],
     [id |-> 2, license_contact_details_id |-> 1, organizations_id |-> NoneIx],
     [id |-> 3, license_contact_details_id |-> 2, organizations_id |-> NoneIx]}

\* organizations an earlier run stored
PriorOrgs ==
    {[id |-> 1, name |-> Str("Acme"), domain |-> Str("old.com"), data |-> 1,
      pgres_last_updated |-> 0],
     [id |-> 2, name |-> Str("Zed"), domain |-> Str("zed.com"), data |-> 1,
      pgres_last_updated |-> 0]}

\* the licences, with licence 3 linked to organization org_id
LicensesLinkedTo(org_id) ==
    {IF l.id = 3 THEN [l EXCEPT !.organizations_id = org_id] ELSE l : l \in LoadedLicenses}

InitStoreFrom(prior) ==
    /\ pn_organizations \in SUBSET prior
    /\ pn_license_contact_details = LoadedContactDetails
    /\ pn_licenses \in {LoadedLicenses}
                       \cup {LicensesLinkedTo(o.id) : o \in pn_organizations}
    /\ next_org_id = 3
    /\ ct_stored = 0
    /\ calls = <<>>

(***************************************************************************)
(* SpecStore: at most MaxCalls calls of store_one_response, each on any    *)
(* item of StoreItems for any company of StoreCompanies, from every store  *)
(* of InitStoreFrom(PriorOrgs).                                            *)
(***************************************************************************)
StoreItems ==
    {[name |-> Str("Acme"), domain |-> Str("acme.com"), data |-> 1],
     [name |-> Str("Acme"), domain |-> Str("acme.com"), data |-> 2],
     [name |-> Str("Acme"), domain |-> Str("acme.com/"), data |-> 1],
     [name |-> Str("Zed"), domain |-> Str("zed.com"), data |-> 1],
     [name |-> <<>>, domain |-> Str("acme.com"), data |-> 1],
     [name |-> Str("Acme"), domain |-> NoneStr, data |-> 1]}

StoreCompanies == {Str("Acme Corp"), Str("Zed Corp"), Str("Lone Corp"), Str("Nil Corp")}

\* the record of a call in calls: its arguments, pn_organizations and
\* ct_stored before and after it, pn_licenses after it, and its outcome
Call(single_response, a_company, o) ==
    [single_response |-> single_response, company |-> a_company,
     before |-> pn_organizations, after |-> o.pn_organizations,
     licenses_after |-> o.pn_licenses,
     ct_before |-> ct_stored, ct_after |-> o.ct_stored,
     ret |-> o.ret, sql |-> o.sql, raised |-> o.raised]

\* store_one_response(single_response, a_company) on the store of the
\* state; an exception that leaves it ends the process, and the run goes on
\* at next_pc otherwise
StoreOneResponse(single_response, a_company, next_pc) ==
    \E o \in store_one_response(pn_organizations, pn_license_contact_details,
                                pn_licenses, next_org_id, ct_stored,
                                single_response, a_company) :
        /\ pn_organizations' = o.pn_organizations
        /\ pn_licenses' = o.pn_licenses
        /\ next_org_id' = o.next_org_id
        /\ ct_stored' = o.ct_stored
        /\ calls' = Append(calls, Call(single_response, a_company, o))
        /\ stored' = o.ret
        /\ pc' = IF o.raised THEN "crashed" ELSE next_pc
        /\ UNCHANGED pn_license_contact_details

InitStore ==
    /\ pc = "call"
    /\ email = <<>>
    /\ company = <<>>
    /\ domain = NoneStr
    /\ items = <<>>
    /\ pick = NoPick
    /\ stored = FALSE
    /\ InitStoreFrom(PriorOrgs)
    /\ InitRun
    /\ frame = NoFrame
    /\ NoLicenses
    /\ tlds = TldFile

CallStore ==
    /\ pc = "call"
    /\ Len(calls) < MaxCalls
    /\ \E single_response \in StoreItems, a_company \in StoreCompanies :
          StoreOneResponse(single_response, a_company, "call")
    /\ UNCHANGED <<tlds, frame, licVars, email, company, domain, items, pick, runVars>>

NextStore == CallStore

SpecStore == InitStore /\ [][NextStore]_vars

(***************************************************************************)
(* Spec: a run of get_each_license over at most MaxRecords records, each   *)
(* any e-mail of RunEmails with any company of RunCompanies, the provider  *)
(* answering each query with any response of Responses; the session is     *)
(* made at the first attempt (SpecLoop has the other attempts).            *)
(***************************************************************************)
RunEmails == {Str("bad"), Str("u@isp.com"), Str("u@acme.com"), Str("u@zed.com")}

RunCompanies == {Str("Acme Corp"), Str("Zed Corp")}

RunItems ==
    {[name |-> Str("Acme"), domain |-> Str("acme.com"), data |-> 1],
     [name |-> Str("Acme"), domain |-> Str("acme.com/"), data |-> 2],
     [name |-> Str("Zed"), domain |-> Str("zed.com"), data |-> 1]}

Init ==
    /\ pc = "connect"
    /\ email = <<>>
    /\ company = <<>>
    /\ domain = NoneStr
    /\ items = <<>>
    /\ pick = NoPick
    /\ stored = FALSE
    /\ InitStoreFrom({})
    /\ InitRun
    /\ frame = NoFrame
    /\ NoLicenses
    /\ tlds = TldFile

\* get_env_vars: the five variables are read from os.environ; a KeyError
\* ends the process by sys.exit(1)
GetEnvVars ==
    /\ pc = "start"
    /\ \E all_set \in BOOLEAN :
          IF all_set
          THEN pc' = "connect" /\ UNCHANGED exit_code
          ELSE pc' = "exited" /\ exit_code' = 1
    /\ UNCHANGED <<tlds, frame, licVars, fnVars, storeVars, counters, logs, backoff_multiplier>>

backoff == 30

multiplier_limit == 5

\* mutant: every wait is of backoff seconds
backoff_sleep_flat(multiplier) == [unit |-> "secs", times |-> backoff]

\* time.sleep(backoff * backoff_multiplier)
backoff_sleep(multiplier) == [unit |-> "secs", times |-> backoff * multiplier]

\* time.sleep(SLEEP_SECS)
\* (after: the number of requests sent before it)
throttle_sleep == [unit |-> "SLEEP_SECS", times |-> 1, after |-> Len(requests)]

\* connect_to_cb_or_die, an attempt in which requests.Session() returns
ConnectToCb ==
    /\ pc = "connect"
    /\ backoff_multiplier < multiplier_limit
    /\ pc' = "loop"
    /\ UNCHANGED <<tlds, frame, licVars, fnVars, storeVars, runVars>>

\* connect_to_cb_or_die, an attempt that raises ConnectionError: the wait,
\* and the multiplier grows
ConnectionFails ==
    /\ pc = "connect"
    /\ backoff_multiplier < multiplier_limit
    /\ slept' = Append(slept, backoff_sleep(backoff_multiplier))
    /\ backoff_multiplier' = backoff_multiplier + 1
    /\ UNCHANGED <<tlds, frame, licVars, pc, fnVars, storeVars, counters, requests, responses, warnings,
                   exit_code>>

\* connect_to_cb_or_die, the loop left without a session: sys.exit(0)
UnableToConnect ==
    /\ pc = "connect"
    /\ ~(backoff_multiplier < multiplier_limit)
    /\ pc' = "exited"
    /\ exit_code' = 0
    /\ UNCHANGED <<tlds, frame, licVars, fnVars, storeVars, counters, logs, backoff_multiplier>>

start_item == 0

ThrottleEvery == 25

\* mutant: the throttle sleeps at every loop head after the first record
slept_at_every_loop_head ==
    IF items_examined # 0 THEN Append(slept, throttle_sleep) ELSE slept

\* mutant: the sleep is due every other time
slept_at_loop_head_doubled ==
    IF items_examined # 0 /\ items_not_skipped % (2 * ThrottleEvery) = 0
       /\ items_examined > start_item
    THEN Append(slept, throttle_sleep)
    ELSE slept

\* the head of the while loop: the throttle's sleep, when it is due
slept_at_loop_head ==
    IF items_examined # 0 /\ items_not_skipped % ThrottleEvery = 0
       /\ items_examined > start_item
    THEN Append(slept, throttle_sleep)
    ELSE slept

\* next(email_company_iter) yields a record of the source: it is counted,
\* and handle_company_and_email is about to be called with it
NextRecordFrom(emails, companies, max_records) ==
    /\ pc = "loop"
    /\ items_examined < max_records
    /\ slept' = slept_at_loop_head
    /\ \E an_email \in emails, a_company \in companies :
          /\ email' = an_email
          /\ company' = a_company
    /\ items_examined' = items_examined + 1
    /\ IF items_examined + 1 < start_item
       THEN /\ items_skipped' = items_skipped + 1
            /\ pc' = "loop"
            /\ UNCHANGED items_not_skipped
       ELSE /\ items_not_skipped' = items_not_skipped + 1
            /\ pc' = "handle"
            /\ UNCHANGED items_skipped
    /\ domain' = NoneStr
    /\ items' = <<>>
    /\ pick' = NoPick
    /\ stored' = FALSE
    /\ UNCHANGED <<tlds, frame, licVars, storeVars, ct_isps, domainTallies, nameTallies, repeat_domains,
                   domains_queried, requests, responses, warnings,
                   backoff_multiplier,
                   exit_code>>

NextRecord == NextRecordFrom(RunEmails, RunCompanies, MaxRecords)

\* next(email_company_iter) raises StopIteration: the loop ends, the session
\* is closed
StopIteration ==
    /\ pc = "loop"
    /\ slept' = slept_at_loop_head
    /\ pc' = "closed"
    /\ UNCHANGED <<tlds, frame, licVars, fnVars, storeVars, counters, requests, responses, warnings,
                   backoff_multiplier, exit_code>>

\* logging.warning('Bad email address ...')
bad_email_warning(an_email) == [message |-> "Bad email address", arg |-> an_email]

\* mutant: a malformed e-mail is tallied as a domain miss
HandleBadEmailAsMiss ==
    /\ pc = "handle"
    /\ Falsy(get_domain_from(email))
    /\ domain' = get_domain_from(email)
    /\ warnings' = Append(warnings, bad_email_warning(email))
    /\ domain_misses' = domain_misses + 1
    /\ pc' = "handled"
    /\ UNCHANGED <<tlds, frame, licVars, email, company, items, pick, stored, storeVars,
                   items_examined, items_skipped, items_not_skipped, ct_isps,
                   single_domain_hits, multiple_domain_hits, nameTallies,
                   repeat_domains, domains_queried, requests, responses, slept,
                   backoff_multiplier, exit_code>>

\* handle_company_and_email, first branch: handle_bad_email
HandleBadEmail ==
    /\ pc = "handle"
    /\ Falsy(get_domain_from(email))
    /\ domain' = get_domain_from(email)
    /\ warnings' = Append(warnings, bad_email_warning(email))
    /\ pc' = "handled"
    /\ UNCHANGED <<tlds, frame, licVars, email, company, items, pick, stored, storeVars, counters,
                   requests, responses, slept, backoff_multiplier, exit_code>>

\* mutant: the ISP's domain is remembered as queried
HandleIspDomainAsQueried ==
    /\ pc = "handle"
    /\ ~Falsy(get_domain_from(email))
    /\ get_domain_from(email) \in isp_domains
    /\ domain' = get_domain_from(email)
    /\ ct_isps' = ct_isps + 1
    /\ domains_queried' = domains_queried \cup {get_domain_from(email)}
    /\ pc' = "handled"
    /\ UNCHANGED <<tlds, frame, licVars, email, company, items, pick, stored, storeVars,
                   items_examined, items_skipped, items_not_skipped,
                   domainTallies, nameTallies, repeat_domains,
                   logs, backoff_multiplier, exit_code>>

\* handle_company_and_email, second branch: handle_isp_domain
HandleIspDomain ==
    /\ pc = "handle"
    /\ ~Falsy(get_domain_from(email))
    /\ get_domain_from(email) \in isp_domains
    /\ domain' = get_domain_from(email)
    /\ ct_isps' = ct_isps + 1
    /\ pc' = "handled"
    /\ UNCHANGED <<tlds, frame, licVars, email, company, items, pick, stored, storeVars,
                   items_examined, items_skipped, items_not_skipped,
                   domainTallies, nameTallies, repeat_domains, domains_queried,
                   logs, backoff_multiplier, exit_code>>

NonIspDomain ==
    /\ pc = "handle"
    /\ ~Falsy(get_domain_from(email))
    /\ get_domain_from(email) \notin isp_domains

\* handle_non_isp_domain, for a domain in domains_queried
HandleRepeatDomain ==
    /\ NonIspDomain
    /\ get_domain_from(email) \in domains_queried
    /\ domain' = get_domain_from(email)
    /\ repeat_domains' = repeat_domains + 1
    /\ stored' = FALSE
    /\ pc' = "handled"
    /\ UNCHANGED <<tlds, frame, licVars, email, company, items, pick, storeVars,
                   items_examined, items_skipped, items_not_skipped, ct_isps,
                   domainTallies, nameTallies, domains_queried,
                   logs, backoff_multiplier, exit_code>>

\* mutant: the domain is not remembered
add_queried_forgotten(queried, a_domain) == queried

\* domains_queried.add(domain)
add_queried(queried, a_domain) == queried \cup {a_domain}

\* retrieve_pick on the response, and store_one_response on the item picked
PickAndStore(response_items) ==
    LET picked == retrieve_pick(company, get_domain_from(email), response_items)
    IN /\ items' = response_items
       /\ pick' = picked
       /\ IF ~Falsy(picked.name)
          THEN StoreOneResponse(response_items[picked.ix + 1], company, "handled")
          ELSE /\ stored' = FALSE
               /\ pc' = "handled"
               /\ UNCHANGED storeVars

\* What self.sess.get(self.url, params=payload) may return: a 200 with a
\* body of items, or another status whose body is JSON with an empty item
\* list ("items"), JSON without data.items ("no_items"), or not JSON
\* ("not_json").
OtherStatus == 401

Responses ==
    [status_code : {200}, body : {"items"}, items : ItemLists(RunItems, MaxItems)]
    \cup [status_code : {OtherStatus}, body : {"items", "no_items", "not_json"},
          items : {<<>>}]

\* response.json() returns, and response_dict['data']['items'] is there
has_items(response) == response.body = "items"

\* get_response_len(response_dict)
get_response_len(response) == Len(response.items)

\* the entry of responses for an answer to a query of that kind
Answer(kind, response) ==
    [kind |-> kind, status_code |-> response.status_code, body |-> response.body,
     len |-> Len(response.items)]

DomainRequest == [kind |-> "domain", key |-> get_domain_from(email)]

\* mutant: the query by name carries the domain again
NameRequestByDomain == [kind |-> "domain", key |-> get_domain_from(email)]

NameRequest == [kind |-> "name", key |-> company]

\* handle_non_isp_domain, for a new domain the domain query finds
HandleDomainHit ==
    /\ NonIspDomain
    /\ get_domain_from(email) \notin domains_queried
    /\ domain' = get_domain_from(email)
    /\ domains_queried' = add_queried(domains_queried, get_domain_from(email))
    /\ requests' = Append(requests, DomainRequest)
    /\ \E response \in Responses :
          /\ has_items(response)
          /\ get_response_len(response) # 0
          /\ responses' = Append(responses, Answer("domain", response))
          /\ IF get_response_len(response) = 1
             THEN /\ single_domain_hits' = single_domain_hits + 1
                  /\ UNCHANGED multiple_domain_hits
             ELSE /\ multiple_domain_hits' = multiple_domain_hits + 1
                  /\ UNCHANGED single_domain_hits
          /\ PickAndStore(response.items)
    /\ UNCHANGED <<tlds, frame, licVars, email, company, items_examined, items_skipped, items_not_skipped,
                   ct_isps, domain_misses, nameTallies, repeat_domains, slept, warnings,
                   backoff_multiplier, exit_code>>

\* handle_non_isp_domain, for a new domain the domain query does not find:
\* the query by company name follows
HandleDomainMissFrom(domain_responses, name_responses) ==
    /\ NonIspDomain
    /\ get_domain_from(email) \notin domains_queried
    /\ domain' = get_domain_from(email)
    /\ domains_queried' = add_queried(domains_queried, get_domain_from(email))
    /\ domain_misses' = domain_misses + 1
    /\ requests' = requests \o <<DomainRequest, NameRequest>>
    /\ ct_name_queries' = ct_name_queries + 1
    /\ \E response \in domain_responses, name_response \in name_responses :
          /\ has_items(response)
          /\ get_response_len(response) = 0
          /\ has_items(name_response)
          /\ responses' = responses \o <<Answer("domain", response),
                                         Answer("name", name_response)>>
          /\ IF get_response_len(name_response) = 0
             THEN /\ name_misses' = name_misses + 1
                  /\ UNCHANGED <<single_name_hits, multiple_name_hits>>
             ELSE IF get_response_len(name_response) = 1
             THEN /\ single_name_hits' = single_name_hits + 1
                  /\ UNCHANGED <<name_misses, multiple_name_hits>>
             ELSE /\ multiple_name_hits' = multiple_name_hits + 1
                  /\ UNCHANGED <<name_misses, single_name_hits>>
          /\ IF get_response_len(name_response) = 0
             THEN /\ items' = name_response.items
                  /\ pc' = "handled"
                  /\ UNCHANGED <<pick, stored, storeVars>>
             ELSE PickAndStore(name_response.items)
    /\ UNCHANGED <<tlds, frame, licVars, email, company, items_examined, items_skipped, items_not_skipped,
                   ct_isps, single_domain_hits, multiple_domain_hits, repeat_domains,
                   slept, warnings, backoff_multiplier, exit_code>>

HandleDomainMiss == HandleDomainMissFrom(Responses, Responses)

\* handle_non_isp_domain, for a new domain whose domain query is answered
\* with a body that has no item list: response.json() raises ValueError, or
\* get_response_len raises KeyError, and nothing catches either
DomainQueryRaises ==
    /\ NonIspDomain
    /\ get_domain_from(email) \notin domains_queried
    /\ domain' = get_domain_from(email)
    /\ domains_queried' = add_queried(domains_queried, get_domain_from(email))
    /\ requests' = Append(requests, DomainRequest)
    /\ \E response \in Responses :
          /\ ~has_items(response)
          /\ responses' = Append(responses, Answer("domain", response))
    /\ pc' = "crashed"
    /\ UNCHANGED <<tlds, frame, licVars, email, company, items, pick, stored, storeVars,
                   items_examined, items_skipped, items_not_skipped, ct_isps,
                   domainTallies, nameTallies, repeat_domains, slept, warnings,
                   backoff_multiplier, exit_code>>

\* handle_non_isp_domain, for a new domain the domain query does not find
\* and whose name query is answered with a body that has no item list;
\* ct_name_queries is incremented between query_cb_orgs_by_name, where
\* response.json() raises, and get_response_len, where the KeyError is
NameQueryRaises ==
    /\ NonIspDomain
    /\ get_domain_from(email) \notin domains_queried
    /\ domain' = get_domain_from(email)
    /\ domains_queried' = add_queried(domains_queried, get_domain_from(email))
    /\ domain_misses' = domain_misses + 1
    /\ requests' = requests \o <<DomainRequest, NameRequest>>
    /\ \E response \in Responses, name_response \in Responses :
          /\ has_items(response)
          /\ get_response_len(response) = 0
          /\ ~has_items(name_response)
          /\ responses' = responses \o <<Answer("domain", response),
                                         Answer("name", name_response)>>
          /\ ct_name_queries' = IF name_response.body = "not_json"
                                THEN ct_name_queries ELSE ct_name_queries + 1
    /\ pc' = "crashed"
    /\ UNCHANGED <<tlds, frame, licVars, email, company, items, pick, stored, storeVars,
                   items_examined, items_skipped, items_not_skipped, ct_isps,
                   single_domain_hits, multiple_domain_hits,
                   name_misses, single_name_hits, multiple_name_hits,
                   repeat_domains, slept, warnings, backoff_multiplier, exit_code>>

\* handle_company_and_email has returned: no record is being handled, its
\* locals are gone, and the while loop goes round
LoopAgain ==
    /\ pc = "handled"
    /\ pc' = "loop"
    /\ email' = <<>>
    /\ company' = <<>>
    /\ domain' = NoneStr
    /\ items' = <<>>
    /\ pick' = NoPick
    /\ stored' = FALSE
    /\ responses' = <<>>
    /\ UNCHANGED <<tlds, frame, licVars, storeVars, counters, requests, slept, warnings,
                   backoff_multiplier, exit_code>>

\* report_ok()
report_ok ==
    items_examined - items_skipped =
        ct_isps + domain_misses + single_domain_hits + multiple_domain_hits
        + repeat_domains

\* run_load_organizations: print_report after get_each_license, and the
\* script ends
PrintReport ==
    /\ pc = "closed"
    /\ pc' = "reported"
    /\ exit_code' = 0
    /\ UNCHANGED <<tlds, frame, licVars, fnVars, storeVars, counters, logs, backoff_multiplier>>

\* an exception nothing catches leaves run_load_organizations: the
\* interpreter prints the traceback and the process ends with status 1
Traceback ==
    /\ pc = "crashed"
    /\ pc' = "exited"
    /\ exit_code' = 1
    /\ UNCHANGED <<tlds, frame, licVars, fnVars, storeVars, counters, logs, backoff_multiplier>>

Next ==
    \/ ConnectToCb
    \/ NextRecord
    \/ StopIteration
    \/ HandleBadEmail
    \/ HandleIspDomain
    \/ HandleRepeatDomain
    \/ HandleDomainHit
    \/ HandleDomainMiss
    \/ DomainQueryRaises
    \/ NameQueryRaises
    \/ LoopAgain
    \/ PrintReport
    \/ Traceback

Spec == Init /\ [][Next]_vars

(***************************************************************************)
(* SpecLoop: the process from run_load_organizations on, with every        *)
(* outcome of get_env_vars and of each attempt of connect_to_cb_or_die,    *)
(* and the loop of get_each_license over at most MaxThrottleRecords        *)
(* records, each a malformed e-mail or the e-mail of an ISP.               *)
(***************************************************************************)
MaxThrottleRecords == 51

ThrottleEmails == {Str("bad"), Str("u@isp.com")}

ThrottleCompanies == {Str("Acme Corp")}

InitLoop ==
    /\ pc = "start"
    /\ email = <<>>
    /\ company = <<>>
    /\ domain = NoneStr
    /\ items = <<>>
    /\ pick = NoPick
    /\ stored = FALSE
    /\ InitStoreFrom({})
    /\ InitRun
    /\ frame = NoFrame
    /\ NoLicenses
    /\ tlds = TldFile

ThrottledNextRecord ==
    NextRecordFrom(ThrottleEmails, ThrottleCompanies, MaxThrottleRecords)

NextLoop ==
    \/ GetEnvVars
    \/ ConnectToCb
    \/ ConnectionFails
    \/ UnableToConnect
    \/ ThrottledNextRecord
    \/ StopIteration
    \/ HandleBadEmail
    \/ HandleIspDomain
    \/ LoopAgain
    \/ PrintReport

SpecLoop == InitLoop /\ [][NextLoop]_vars

(***************************************************************************)
(* SpecThrottle: the loop over at most MaxThrottleRecords records that     *)
(* send queries.  The source is a run of records that send none (all       *)
(* malformed, all of an ISP, or, after a first record, all of its domain   *)
(* again) followed by records of a new domain each; the provider answers   *)
(* every query with an empty list, so each of these sends a domain query   *)
(* and a name query.                                                       *)
(***************************************************************************)
\* the e-mail of a domain not queried yet: u@a.com, u@aa.com, ...
NewDomainEmail ==
    Str("u@") \o [i \in 1..(Cardinality(domains_queried) + 1) |-> "a"] \o Str(".com")

SourceEmails ==
    {NewDomainEmail}
    \cup (IF domains_queried = {} /\ ct_isps = 0 THEN {Str("bad")} ELSE {})
    \cup (IF domains_queried = {} /\ warnings = <<>> THEN {Str("u@isp.com")} ELSE {})
    \cup (IF Cardinality(domains_queried) = 1 /\ warnings = <<>> /\ ct_isps = 0
          THEN {Str("u@a.com")} ELSE {})

EmptyAnswers == {[status_code |-> 200, body |-> "items", items |-> <<>>]}

QueryingNextRecord ==
    NextRecordFrom(SourceEmails, ThrottleCompanies, MaxThrottleRecords)

HandleDomainAndNameMiss == HandleDomainMissFrom(EmptyAnswers, EmptyAnswers)

NextThrottle ==
    \/ ConnectToCb
    \/ QueryingNextRecord
    \/ StopIteration
    \/ HandleBadEmail
    \/ HandleIspDomain
    \/ HandleRepeatDomain
    \/ HandleDomainAndNameMiss
    \/ LoopAgain
    \/ PrintReport

SpecThrottle == Init /\ [][NextThrottle]_vars

(***************************************************************************)
(* LoadLicenses.  A licence of the Marketplace export is [licenseId,       *)
(* addonKey, addonName, contactDetails, partnerDetails, data], data        *)
(* standing for hosting .. tier taken together; contactDetails is          *)
(* [company, country, region, billingContact, technicalContact]; a         *)
(* contact is [present, email, name], name standing for address1 .. state  *)
(* with it, and present telling that the key is there with a non-empty     *)
(* value; partnerDetails is [present, partnerName, partnerType].           *)
(* A row of a table is [id, key, cols, pgres_last_updated]: key holds the  *)
(* column(s) the key set of the table is made of (email; key; name;        *)
(* company, country and region; license_id), cols the other columns the    *)
(* is_*_duplicate of the table compares.  NoneIx is NULL.                  *)
(***************************************************************************)
MaxLicenses == 2

Contact(address, name) == [present |-> TRUE, email |-> address, name |-> name]

NoContact == [present |-> FALSE, email |-> "", name |-> ""]

Partner(partnerName, partnerType) ==
    [present |-> TRUE, partnerName |-> partnerName, partnerType |-> partnerType]

NoPartner == [present |-> FALSE, partnerName |-> "", partnerType |-> ""]

\* the licences the export may hold: two of one company that share the
\* technical contact and the add-on, the second under the licence id of
\* the first with other data, a renamed add-on and the technical contact's
\* e-mail on another billing name; one of a company with no region and no
\* billing contact; one with no technical contact
MarketplaceLicenses ==
    {[licenseId |-> "L1", addonKey |-> "K1", addonName |-> "Addon",
      contactDetails |-> [company |-> "Acme", country |-> "US", region |-> "CA",
                          billingContact |-> Contact("b@acme", "Bo"),
                          technicalContact |-> Contact("t@acme", "Ty")],
      partnerDetails |-> NoPartner, data |-> 1],
     [licenseId |-> "L1", addonKey |-> "K1", addonName |-> "Addon 2",
      contactDetails |-> [company |-> "Acme", country |-> "US", region |-> "CA",
                          billingContact |-> Contact("t@acme", "Ty B"),
                          technicalContact |-> Contact("t@acme", "Ty")],
      partnerDetails |-> Partner("P1", "Reseller"), data |-> 2],
     [licenseId |-> "L2", addonKey |-> "K1", addonName |-> "Addon 2",
      contactDetails |-> [company |-> "Zed", country |-> "US", region |-> "",
                          billingContact |-> NoContact,
                          technicalContact |-> Contact("t@acme", "Ty")],
      partnerDetails |-> Partner("P1", "Expert"), data |-> 1],
     [licenseId |-> "L3", addonKey |-> "K2", addonName |-> "Other",
      contactDetails |-> [company |-> "Lone", country |-> "US", region |-> "NY",
                          billingContact |-> Contact("b@acme", "Bo"),
                          technicalContact |-> NoContact],
      partnerDetails |-> NoPartner, data |-> 1]}

Exports == UNION {[1..k -> MarketplaceLicenses] : k \in 0..MaxLicenses}

\* rows the WHERE clause on the key of a table selects
rows_with(rows, key) == {r \in rows : r.key = key}

\* SELECT id FROM <table> WHERE <key> = %s: the ids of the result
ids_with(rows, key) == {r.id : r \in rows_with(rows, key)}

\* INSERT INTO <table> ... VALUES ...; the store gives the row its id
insert_into(rows, new_id, item) ==
    rows \cup {[id |-> new_id, key |-> item.key, cols |-> item.cols,
                pgres_last_updated |-> item.pgres_last_updated]}

\* UPDATE <table> SET ... WHERE <key> = %s
update_where(rows, item) ==
    {IF r.key = item.key
     THEN [r EXCEPT !.cols = item.cols,
                    !.pgres_last_updated = item.pgres_last_updated]
     ELSE r : r \in rows}

\* make_contact_insert_list(mkt_input_dict)
make_contact_insert_list(contact, now) ==
    [key |-> contact.email, cols |-> [name |-> contact.name],
     pgres_last_updated |-> now]

\* make_addon_insert_list(mkt_input_dict)
make_addon_insert_list(license, now) ==
    [key |-> license.addonKey, cols |-> [name |-> license.addonName],
     pgres_last_updated |-> now]

\* make_partner_details_insert_list(mkt_input_dict)
make_partner_details_insert_list(partner, now) ==
    [key |-> partner.partnerName, cols |-> [type |-> partner.partnerType],
     pgres_last_updated |-> now]

\* a SELECT id ... and fetchone()[0]: the table, the key asked for, and
\* whether a row came back
Lookup(table, key, ids) == [table |-> table, key |-> key, found |-> ids # {}]

\* build_lcd_key_as_list(pn_cursor, ix) and make_lcd_insert_list: the lists
\* they may return with the ids fetchone() gave, after the look-ups they
\* made; KeyError with no technicalContact, TypeError when a fetchone() is
\* None
build_lcd_key_as_list(db, license, now) ==
    LET details == license.contactDetails
        bill == details.billingContact
        tech == details.technicalContact
        bill_ids == IF bill.present /\ bill.email # ""
                    THEN ids_with(db.pn_contacts, bill.email) ELSE {NoneIx}
        bill_lookups == IF bill.present /\ bill.email # ""
                        THEN <<Lookup("pn_contacts", bill.email, bill_ids)>>
                        ELSE <<>>
        tech_ids == ids_with(db.pn_contacts, tech.email)
        key == <<details.company, details.country, details.region>>
        failed(raised, lookups) ==
            [raised |-> raised, lookups |-> lookups,
             item |-> [key |-> key, cols |-> [bill_contact_id |-> NoneIx,
                                              tech_contact_id |-> NoneIx],
                       pgres_last_updated |-> now]]
    IN IF bill_ids = {} THEN {failed("TypeError", bill_lookups)}
       ELSE IF ~tech.present THEN {failed("KeyError", bill_lookups)}
       ELSE IF tech_ids = {}
       THEN {failed("TypeError",
                    Append(bill_lookups, Lookup("pn_contacts", tech.email, tech_ids)))}
       ELSE {[raised |-> "",
              lookups |-> Append(bill_lookups,
                                 Lookup("pn_contacts", tech.email, tech_ids)),
              item |-> [key |-> key,
                        cols |-> [bill_contact_id |-> bill_id,
                                  tech_contact_id |-> tech_id],
                        pgres_last_updated |-> now]] :
                 bill_id \in bill_ids, tech_id \in tech_ids}

\* get_addons_id: SELECT id FROM pn_addons WHERE key = %s
get_addons_id(db, license) == ids_with(db.pn_addons, license.addonKey)

\* all(data) of get_lcd_id: company, country and region are non-empty
has_lcd_key(license) ==
    /\ license.contactDetails.company # ""
    /\ license.contactDetails.country # ""
    /\ license.contactDetails.region # ""

\* get_lcd_id: SELECT id FROM pn_license_contact_details WHERE (company,
\* country, region) = ..., None unless all three are there
get_lcd_id(db, license) ==
    IF has_lcd_key(license)
    THEN ids_with(db.pn_license_contact_details,
                  <<license.contactDetails.company, license.contactDetails.country,
                    license.contactDetails.region>>)
    ELSE {NoneIx}

\* get_partner_details_id: it reads 'partnerName' of the licence itself,
\* a key the licences of the export hold under partnerDetails only
get_partner_details_id(db, license) == NoneIx

\* get_organizations_id: SELECT organizations_id FROM pn_licenses WHERE
\* license_id = %s, None when there is no row
get_organizations_id(db, license) ==
    IF rows_with(db.pn_licenses, license.licenseId) = {} THEN {NoneIx}
    ELSE {r.cols.organizations_id : r \in rows_with(db.pn_licenses, license.licenseId)}

\* make_license_id_insert_list(mkt_input_dict, pn_cursor, ix): as
\* build_lcd_key_as_list
make_license_id_insert_list(db, license, now) ==
    LET addons_ids == get_addons_id(db, license)
        lcd_ids == get_lcd_id(db, license)
        addon_lookup == Lookup("pn_addons", license.addonKey, addons_ids)
        lcd_key == <<license.contactDetails.company, license.contactDetails.country,
                     license.contactDetails.region>>
        lcd_lookups == IF has_lcd_key(license)
                       THEN <<Lookup("pn_license_contact_details", lcd_key, lcd_ids)>>
                       ELSE <<>>
        list(addons_id, lcd_id, organizations_id) ==
            [key |-> license.licenseId,
             cols |-> [addons_id |-> addons_id,
                       license_contact_details_id |-> lcd_id,
                       partner_details_id |-> get_partner_details_id(db, license),
                       organizations_id |-> organizations_id,
                       addon_key |-> license.addonKey,
                       data |-> license.data],
             pgres_last_updated |-> now]
    IN IF addons_ids = {}
       THEN {[raised |-> "TypeError", lookups |-> <<addon_lookup>>,
              item |-> list(NoneIx, NoneIx, NoneIx)]}
       ELSE IF lcd_ids = {}
       THEN {[raised |-> "TypeError", lookups |-> <<addon_lookup>> \o lcd_lookups,
              item |-> list(NoneIx, NoneIx, NoneIx)]}
       ELSE {[raised |-> "", lookups |-> <<addon_lookup>> \o lcd_lookups,
              item |-> list(addons_id, lcd_id, organizations_id)] :
                 addons_id \in addons_ids, lcd_id \in lcd_ids,
                 organizations_id \in get_organizations_id(db, license)}

\* mutant: a row of the key is taken for a duplicate
same_key(rows, item) == rows_with(rows, item.key) # {}

\* the row fetchone() gives for the key has the columns of the item
same_columns(rows, item) == \E r \in rows_with(rows, item.key) : r.cols = item.cols

\* is_contact_item_duplicate(pn_cursor, ix, is_tech)
is_contact_item_duplicate(rows, item) == same_columns(rows, item)

\* is_addon_item_duplicate(pn_cursor, ix)
is_addon_item_duplicate(rows, item) == same_columns(rows, item)

\* is_partner_item_duplicate(pn_cursor, ix)
is_partner_item_duplicate(rows, item) == same_columns(rows, item)

\* is_lcd_item_duplicate(pn_cursor, ix)
is_lcd_item_duplicate(rows, item) == same_columns(rows, item)

\* is_license_id_item_duplicate(pn_cursor, ix): a row IS NOT DISTINCT FROM
\* the licence in every column but pgres_last_updated; False with no row
is_license_id_item_duplicate(rows, item) == same_columns(rows, item)

\* What a get_* leaves once it has the item of the licence: the rows of
\* its table, its key set, and the statement it executed.  An INSERT of one
\* row has rowcount 1; an UPDATE has the number of rows of the key; the
\* fetchone() of an is_*_duplicate that finds no row is None, and its
\* slice a TypeError, but for is_license_id_item_duplicate.
Written(rows, key_set, stmt, rowcount, raised) ==
    [rows |-> rows, key_set |-> key_set, stmt |-> stmt, rowcount |-> rowcount,
     raised |-> raised]

insert_or_update(rows, key_set, new_id, item, none_raises, is_duplicate) ==
    IF item.key \notin key_set
    THEN Written(insert_into(rows, new_id, item), key_set \cup {item.key}, "INSERT", 1, "")
    ELSE IF none_raises /\ rows_with(rows, item.key) = {}
    THEN Written(rows, key_set, "none", 0, "TypeError")
    ELSE IF is_duplicate
    THEN Written(rows, key_set, "none", 0, "")
    ELSE Written(update_where(rows, item), key_set, "UPDATE",
                 Cardinality(rows_with(rows, item.key)), "")

\* the statements of fill_pn_tables in their order: the statement after
\* the one at pc for the licence at ix, of n licences
At(next_pc, next_ix) == [pc |-> next_pc, ix |-> next_ix]

\* mutant: one loop makes the rows of all five tables licence by licence
fill_pn_tables_in_one_loop(at, ix, n) ==
    IF at = "store_licenses"
    THEN IF n = 0 THEN At("commit_contacts", 0) ELSE At("get_billing_contact", 0)
    ELSE IF at = "get_billing_contact" THEN At("get_technical_contact", ix)
    ELSE IF at = "get_technical_contact" THEN At("get_addons_key", ix)
    ELSE IF at = "get_addons_key" THEN At("get_partner_details_key", ix)
    ELSE IF at = "get_partner_details_key" THEN At("get_lcd_key", ix)
    ELSE IF at = "get_lcd_key" THEN At("get_license_id", ix)
    ELSE IF at = "get_license_id"
    THEN IF ix + 1 < n THEN At("get_billing_contact", ix + 1)
         ELSE At("commit_contacts", ix)
    ELSE IF at = "commit_contacts" THEN At("commit_lcd", ix)
    ELSE IF at = "commit_lcd" THEN At("commit_licenses", ix)
    ELSE At("stored", ix)

fill_pn_tables(at, ix, n) ==
    IF at = "store_licenses"
    THEN IF n = 0 THEN At("commit_contacts", 0) ELSE At("get_billing_contact", 0)
    ELSE IF at = "get_billing_contact" THEN At("get_technical_contact", ix)
    ELSE IF at = "get_technical_contact" THEN At("get_addons_key", ix)
    ELSE IF at = "get_addons_key" THEN At("get_partner_details_key", ix)
    ELSE IF at = "get_partner_details_key"
    THEN IF ix + 1 < n THEN At("get_billing_contact", ix + 1)
         ELSE At("commit_contacts", ix)
    ELSE IF at = "commit_contacts"
    THEN IF n = 0 THEN At("commit_lcd", 0) ELSE At("get_lcd_key", 0)
    ELSE IF at = "get_lcd_key"
    THEN IF ix + 1 < n THEN At("get_lcd_key", ix + 1) ELSE At("commit_lcd", ix)
    ELSE IF at = "commit_lcd"
    THEN IF n = 0 THEN At("commit_licenses", 0) ELSE At("get_license_id", 0)
    ELSE IF at = "get_license_id"
    THEN IF ix + 1 < n THEN At("get_license_id", ix + 1)
         ELSE At("commit_licenses", ix)
    ELSE At("stored", ix)

(***************************************************************************)
(* SpecLicenses: main() of LoadLicenses on every export of Exports, from   *)
(* empty tables, and once more on every export from the tables the first   *)
(* run left.  pc is the call fill_pn_tables makes next; an exception ends  *)
(* the process, and the store drops what the connection had not            *)
(* committed.  self.cur_time is the number of the run.                     *)
(***************************************************************************)
InitLicenses ==
    /\ pc = "store_licenses"
    /\ email = <<>>
    /\ company = <<>>
    /\ domain = NoneStr
    /\ items = <<>>
    /\ pick = NoPick
    /\ stored = FALSE
    /\ EmptyStore
    /\ InitRun
    /\ frame = NoFrame
    /\ tlds = TldFile
    /\ run_no = 1
    /\ mkt_data \in Exports
    /\ mkt_ix = 0
    /\ contacts_key_set = {}
    /\ addons_key_set = {}
    /\ partner_details_key_set = {}
    /\ lcd_key_set = {}
    /\ license_key_set = {}
    /\ tables = EmptyTables
    /\ committed = EmptyTables
    /\ next_row_id = 1
    /\ sql_log = <<>>
    /\ ct_writes = NewCounters

\* the entry of sql_log for a call that had a key: the run and the index
\* of the licence, the table, the key and whether the key set held it, the
\* columns of the rows of the key before the call and the columns of the
\* licence, the statement, and the look-ups made for the item
Entry(table, item, in_set, o, lookups) ==
    [run_no |-> run_no, ix |-> mkt_ix, table |-> table, key |-> item.key,
     in_set |-> in_set,
     before |-> {r.cols : r \in rows_with(tables[table], item.key)},
     wanted |-> item.cols, stmt |-> o.stmt, rowcount |-> o.rowcount,
     raised |-> o.raised, lookups |-> lookups]

\* a call returns: the next call of fill_pn_tables
Goto ==
    LET next == fill_pn_tables(pc, mkt_ix, Len(mkt_data))
    IN /\ pc' = next.pc
       /\ mkt_ix' = next.ix

\* an exception leaves main(): the process ends
Raise ==
    /\ pc' = "crashed"
    /\ mkt_ix' = mkt_ix

\* the table, the id sequence, the counters and sql_log after a get_*
\* with outcome o
Leave(table, item, in_set, o, lookups, ct_insert, ct_update) ==
    /\ tables' = IF o.raised # "" THEN committed
                 ELSE [tables EXCEPT ![table] = o.rows]
    /\ next_row_id' = IF o.stmt = "INSERT" THEN next_row_id + 1 ELSE next_row_id
    /\ ct_writes' = IF o.stmt = "INSERT" /\ o.rowcount = 1
                    THEN [ct_writes EXCEPT ![ct_insert] = @ + 1]
                    ELSE IF o.stmt = "UPDATE" /\ o.rowcount = 1
                    THEN [ct_writes EXCEPT ![ct_update] = @ + 1]
                    ELSE ct_writes
    /\ sql_log' = Append(sql_log, Entry(table, item, in_set, o, lookups))
    /\ IF o.raised # "" THEN Raise ELSE Goto

\* store_licenses: get_primary_key_sets on a new connection, then
\* fill_pn_tables
StoreLicenses ==
    /\ pc = "store_licenses"
    /\ license_key_set' = {r.key : r \in tables.pn_licenses}
    /\ lcd_key_set' = lcd_key_set \cup {r.key : r \in tables.pn_license_contact_details}
    /\ partner_details_key_set' = {r.key : r \in tables.pn_partner_details}
    /\ addons_key_set' = {r.key : r \in tables.pn_addons}
    /\ contacts_key_set' = {r.key : r \in tables.pn_contacts}
    /\ Goto
    /\ UNCHANGED <<tlds, frame, run_no, mkt_data, tables, committed, next_row_id,
                   sql_log, ct_writes, fnVars, storeVars, runVars>>

\* get_billing_contact(pn_cursor, ix) with insert_bill_contact and
\* update_bill_contact
GetBillingContact ==
    /\ pc = "get_billing_contact"
    /\ LET my_billing_contact == mkt_data[mkt_ix + 1].contactDetails.billingContact
           item == make_contact_insert_list(my_billing_contact, run_no)
           o == insert_or_update(tables.pn_contacts, contacts_key_set, next_row_id,
                                 item, TRUE,
                                 is_contact_item_duplicate(tables.pn_contacts, item))
       IN IF my_billing_contact.present
          THEN /\ contacts_key_set' = o.key_set
               /\ Leave("pn_contacts", item, item.key \in contacts_key_set, o, <<>>,
                        "ct_insert_bill_contacts", "ct_update_bill_contacts")
          ELSE /\ Goto
               /\ UNCHANGED <<contacts_key_set, tables, next_row_id, sql_log, ct_writes>>
    /\ UNCHANGED <<tlds, frame, run_no, mkt_data, addons_key_set,
                   partner_details_key_set, lcd_key_set, license_key_set, committed,
                   fnVars, storeVars, runVars>>

\* get_technical_contact(pn_cursor, ix) with insert_tech_contact and
\* update_tech_contact
GetTechnicalContact ==
    /\ pc = "get_technical_contact"
    /\ LET my_technical_contact == mkt_data[mkt_ix + 1].contactDetails.technicalContact
           item == make_contact_insert_list(my_technical_contact, run_no)
           o == insert_or_update(tables.pn_contacts, contacts_key_set, next_row_id,
                                 item, TRUE,
                                 is_contact_item_duplicate(tables.pn_contacts, item))
       IN IF my_technical_contact.present
          THEN /\ contacts_key_set' = o.key_set
               /\ Leave("pn_contacts", item, item.key \in contacts_key_set, o, <<>>,
                        "ct_insert_tech_contacts", "ct_update_tech_contacts")
          ELSE /\ Goto
               /\ UNCHANGED <<contacts_key_set, tables, next_row_id, sql_log, ct_writes>>
    /\ UNCHANGED <<tlds, frame, run_no, mkt_data, addons_key_set,
                   partner_details_key_set, lcd_key_set, license_key_set, committed,
                   fnVars, storeVars, runVars>>

\* get_addons_key(pn_cursor, ix) with insert_addon and update_addon
GetAddonsKey ==
    /\ pc = "get_addons_key"
    /\ LET item == make_addon_insert_list(mkt_data[mkt_ix + 1], run_no)
           o == insert_or_update(tables.pn_addons, addons_key_set, next_row_id,
                                 item, TRUE,
                                 is_addon_item_duplicate(tables.pn_addons, item))
       IN /\ addons_key_set' = o.key_set
          /\ Leave("pn_addons", item, item.key \in addons_key_set, o, <<>>,
                   "ct_insert_addons", "ct_update_addons")
    /\ UNCHANGED <<tlds, frame, run_no, mkt_data, contacts_key_set,
                   partner_details_key_set, lcd_key_set, license_key_set, committed,
                   fnVars, storeVars, runVars>>

\* get_partner_details_key(pn_cursor, ix) with insert_partner_details and
\* update_partner_details
GetPartnerDetailsKey ==
    /\ pc = "get_partner_details_key"
    /\ LET partner == mkt_data[mkt_ix + 1].partnerDetails
           item == make_partner_details_insert_list(partner, run_no)
           o == insert_or_update(tables.pn_partner_details, partner_details_key_set,
                                 next_row_id, item, TRUE,
                                 is_partner_item_duplicate(tables.pn_partner_details,
                                                           item))
       IN IF partner.present
          THEN /\ partner_details_key_set' = o.key_set
               /\ Leave("pn_partner_details", item,
                        item.key \in partner_details_key_set, o, <<>>,
                        "ct_insert_partner_det", "ct_update_partner_det")
          ELSE /\ Goto
               /\ UNCHANGED <<partner_details_key_set, tables, next_row_id, sql_log,
                              ct_writes>>
    /\ UNCHANGED <<tlds, frame, run_no, mkt_data, contacts_key_set, addons_key_set,
                   lcd_key_set, license_key_set, committed, fnVars, storeVars, runVars>>

\* pn_conn.commit()
Commit ==
    /\ pc \in {"commit_contacts", "commit_lcd", "commit_licenses"}
    /\ committed' = tables
    /\ sql_log' = Append(sql_log,
                         [run_no |-> run_no, ix |-> mkt_ix, table |-> pc, key |-> "",
                          in_set |-> FALSE, before |-> {}, wanted |-> <<>>,
                          stmt |-> "COMMIT", rowcount |-> 0, raised |-> "",
                          lookups |-> <<>>])
    /\ Goto
    /\ UNCHANGED <<tlds, frame, run_no, mkt_data, keySets, tables, next_row_id,
                   ct_writes, fnVars, storeVars, runVars>>

\* get_lcd_key(pn_cursor, ix) with build_lcd_key_as_list, insert_lcd,
\* is_lcd_item_duplicate and update_lcd
GetLcdKey ==
    /\ pc = "get_lcd_key"
    /\ \E built \in build_lcd_key_as_list(tables, mkt_data[mkt_ix + 1], run_no) :
          LET rows == tables.pn_license_contact_details
              o == IF built.raised # ""
                   THEN Written(rows, lcd_key_set, "none", 0, built.raised)
                   ELSE insert_or_update(rows, lcd_key_set, next_row_id, built.item,
                                         TRUE, is_lcd_item_duplicate(rows, built.item))
          IN /\ lcd_key_set' = o.key_set
             /\ Leave("pn_license_contact_details", built.item,
                      built.item.key \in lcd_key_set, o, built.lookups,
                      "ct_insert_lcd", "ct_update_lcd")
    /\ UNCHANGED <<tlds, frame, run_no, mkt_data, contacts_key_set, addons_key_set,
                   partner_details_key_set, license_key_set, committed,
                   fnVars, storeVars, runVars>>

\* get_license_id(pn_cursor, ix) with insert_license,
\* is_license_id_item_duplicate and update_license
GetLicenseId ==
    /\ pc = "get_license_id"
    /\ \E built \in make_license_id_insert_list(tables, mkt_data[mkt_ix + 1], run_no) :
          LET rows == tables.pn_licenses
              o == IF built.raised # ""
                   THEN Written(rows, license_key_set, "none", 0, built.raised)
                   ELSE insert_or_update(rows, license_key_set, next_row_id,
                                         built.item, FALSE,
                                         is_license_id_item_duplicate(rows, built.item))
          IN /\ license_key_set' = o.key_set
             /\ Leave("pn_licenses", built.item, built.item.key \in license_key_set,
                      o, built.lookups, "ct_insert_license", "ct_update_license")
    /\ UNCHANGED <<tlds, frame, run_no, mkt_data, contacts_key_set, addons_key_set,
                   partner_details_key_set, lcd_key_set, committed,
                   fnVars, storeVars, runVars>>

\* main() once more, after the first run ended: a new LoadLicenses with
\* the export of the day and a new connection
RunAgain ==
    /\ pc \in {"stored", "crashed"}
    /\ run_no = 1
    /\ run_no' = run_no + 1
    /\ pc' = "store_licenses"
    /\ mkt_data' \in Exports
    /\ mkt_ix' = 0
    /\ contacts_key_set' = {}
    /\ addons_key_set' = {}
    /\ partner_details_key_set' = {}
    /\ lcd_key_set' = {}
    /\ license_key_set' = {}
    /\ tables' = committed
    /\ ct_writes' = NewCounters
    /\ UNCHANGED <<tlds, frame, committed, next_row_id, sql_log, fnVars, storeVars,
                   runVars>>

NextLicenses ==
    \/ StoreLicenses
    \/ GetBillingContact
    \/ GetTechnicalContact
    \/ GetAddonsKey
    \/ GetPartnerDetailsKey
    \/ Commit
    \/ GetLcdKey
    \/ GetLicenseId
    \/ RunAgain

SpecLicenses == InitLicenses /\ [][NextLicenses]_vars

(***************************************************************************)
(* The run                                                                 *)
(***************************************************************************)
\* C1: after any run of get_each_license, items_examined - items_skipped
\* equals ct_isps + domain_misses + single_domain_hits +
\* multiple_domain_hits + repeat_domains: report_ok() is true.
C1_ReportOkAfterRun == pc \in {"closed", "reported"} => report_ok

\* C2: handle_non_isp_domain on a domain of domains_queried adds exactly 1
\* to repeat_domains, sends no query, writes nothing to the store and
\* returns False; so no domain is queried by domain twice in a run.
C2_RepeatDomainSkipped ==
    /\ [][(NonIspDomain /\ get_domain_from(email) \in domains_queried)
          => /\ repeat_domains' = repeat_domains + 1
             /\ requests' = requests
             /\ UNCHANGED storeVars
             /\ stored' = FALSE
             /\ pc' = "handled"]_vars
    /\ [](\A i, j \in 1..Len(requests) :
             (requests[i].kind = "domain" /\ requests[j] = requests[i]) => i = j)

\* a record of a domain already queried has just been handled
C2_Witness ==
    /\ pc = "handled"
    /\ repeat_domains = 1
    /\ domain \in domains_queried
    /\ \E i \in 1..Len(requests) : requests[i] = [kind |-> "domain", key |-> domain]
    /\ items_examined = 2
    /\ ~stored

(***************************************************************************)
(* The resolver's rules, item by item, as section 4.3 of the design states *)
(* them: which rule an item satisfies, whatever the loop did with it.      *)
(***************************************************************************)
Returned == pc = "returned"

ItemAt(ix) == items[ix + 1]

WordOverlap(item) ==
    pick_by_matches(0, item, split_on(lower(company), " ")).pick_ix_list # <<>>

ExactMatch(item) == is_exact(response_of(item), domain)

InitialsMatch(item) == lower(get_initials(response_of(item))) = lower(domain)

VentureExcluded(item) == is_venture(response_of(item), domain)

NoSpacesExactMatch(item) ==
    ~VentureExcluded(item) /\ is_no_spaces_exact(response_of(item), domain)

Accumulates(item) ==
    \/ is_prefix(response_of(item), domain)
    \/ ~VentureExcluded(item)
       /\ (is_no_spaces_prefix(response_of(item), domain) \/ WordOverlap(item))

ItemIxs == 0..(Len(items) - 1)

AccumulatedIxs == {ix \in ItemIxs : Accumulates(ItemAt(ix))}

TheScan == pick_scan(split_on(lower(company), " "), domain, items, 0, <<>>, <<>>)

\* C3: for a domain token without 'Venture', pick_match never returns a
\* candidate whose name contains 'Venture' on the strength of a prefix or a
\* word-overlap match, i.e. unless it is an exact or an initials match.
C3_VentureNeverPicked ==
    (Returned /\ ~contains(domain, VentureStr) /\ pick.ix # NoneIx
        /\ contains(ItemAt(pick.ix).name, VentureStr))
    => (ExactMatch(ItemAt(pick.ix)) \/ InitialsMatch(ItemAt(pick.ix)))

\* C4 as stated: with no exact and no initials match, two or more
\* accumulated candidates of distinct names make pick_match return
\* (None, None); and no candidate is returned while more than one index has
\* accumulated.
C4_TiesGiveNone_Original ==
    (Returned /\ Len(company) >= 2)
    => /\ ((\A ix \in ItemIxs : ~ExactMatch(ItemAt(ix)) /\ ~InitialsMatch(ItemAt(ix)))
           /\ Cardinality({strip(ItemAt(ix).name) : ix \in AccumulatedIxs}) >= 2)
          => pick = NoPick
       /\ pick.ix # NoneIx => Len(TheScan.pick_ix_list) = 1

\* C4 as amended: the same, when moreover no candidate is a space-stripped
\* exact match (which the code treats as a match that ends the scan).
C4_TiesGiveNone ==
    (Returned /\ Len(company) >= 2)
    => /\ ((\A ix \in ItemIxs : /\ ~ExactMatch(ItemAt(ix))
                                /\ ~InitialsMatch(ItemAt(ix))
                                /\ ~NoSpacesExactMatch(ItemAt(ix)))
           /\ Cardinality({strip(ItemAt(ix).name) : ix \in AccumulatedIxs}) >= 2)
          => pick = NoPick
       /\ pick.ix # NoneIx => Len(TheScan.pick_ix_list) = 1

\* two candidates of distinct names accumulated, none decisive, and
\* pick_match returned (None, None)
C4_Witness ==
    /\ Returned
    /\ Len(company) >= 2
    /\ \A ix \in ItemIxs : /\ ~ExactMatch(ItemAt(ix))
                           /\ ~InitialsMatch(ItemAt(ix))
                           /\ ~NoSpacesExactMatch(ItemAt(ix))
    /\ Cardinality({strip(ItemAt(ix).name) : ix \in AccumulatedIxs}) >= 2
    /\ pick = NoPick

\* C5: with len(company) >= 2 and no exact and no initials match, when the
\* accumulated candidates have exactly one distinct literal name,
\* pick_match returns a candidate of that name.
C5_OneNameIsPicked ==
    (/\ Returned
     /\ Len(company) >= 2
     /\ \A ix \in ItemIxs : ~ExactMatch(ItemAt(ix)) /\ ~InitialsMatch(ItemAt(ix))
     /\ Cardinality({ItemAt(ix).name : ix \in AccumulatedIxs}) = 1)
    => /\ pick.ix # NoneIx
       /\ pick.ix \in AccumulatedIxs

FirstExactIx(i) ==
    /\ i \in ItemIxs
    /\ ExactMatch(ItemAt(i))
    /\ \A j \in 0..(i - 1) : ~ExactMatch(ItemAt(j))

\* C6 as stated: with len(company) >= 2, the first exact match i, when no
\* earlier candidate is an initials match, ends the scan and is returned.
C6_FirstExactWins_Original ==
    (Returned /\ Len(company) >= 2)
    => \A i \in ItemIxs :
          (FirstExactIx(i) /\ \A j \in 0..(i - 1) : ~InitialsMatch(ItemAt(j)))
          => (pick.ix = i /\ TheScan.broke_at = i)

\* C6 as amended: the same, when moreover no earlier candidate is a
\* space-stripped exact match.
C6_FirstExactWins ==
    (Returned /\ Len(company) >= 2)
    => \A i \in ItemIxs :
          (FirstExactIx(i)
           /\ \A j \in 0..(i - 1) : /\ ~InitialsMatch(ItemAt(j))
                                    /\ ~NoSpacesExactMatch(ItemAt(j)))
          => (pick.ix = i /\ TheScan.broke_at = i)

\* an exact match was returned after an earlier candidate had accumulated
C6_Witness ==
    /\ Returned
    /\ Len(company) >= 2
    /\ Len(items) >= 2
    /\ FirstExactIx(1)
    /\ Accumulates(ItemAt(0))
    /\ ~InitialsMatch(ItemAt(0))
    /\ ~NoSpacesExactMatch(ItemAt(0))
    /\ pick.ix = 1

(***************************************************************************)
(* get_domain_from                                                         *)
(***************************************************************************)
CountOf(s, c) == Cardinality({i \in 1..Len(s) : s[i] = c})

\* C7: get_domain_from returns None for an e-mail with no '@', with no '.'
\* after its '@', or with two or more '@'; it returns a domain only when
\* the e-mail has exactly one '@', before the rightmost '.', and the domain
\* is then what follows that '@'.
C7_MalformedEmailGivesNone ==
    Returned
    => /\ CountOf(email, "@") # 1 => domain = NoneStr
       /\ rfind(email, ".") < rfind(email, "@") => domain = NoneStr
       /\ domain # NoneStr
          => /\ CountOf(email, "@") = 1
             /\ rfind(email, "@") < rfind(email, ".")
             /\ domain = slice_from(email, rfind(email, "@") + 1)

(***************************************************************************)
(* store_one_response                                                      *)
(***************************************************************************)
LastCall == calls[Len(calls)]

Inserted(c) == c.sql # <<>> /\ c.sql[1] = "INSERT pn_organizations"

StoredDomain(single_response) == rstrip(single_response.domain, "/")

RowsOfDomain(orgs, d) == {o \in orgs : o.domain = d}

\* C8: when store_one_response inserted the organization and did not link
\* it (no or several contact-details rows of the company, or no licence row
\* updated), pn_organizations holds no row of the candidate's domain once
\* the call is over.
C8_OrphanIsRemoved ==
    (calls # <<>> /\ Inserted(LastCall) /\ ~LastCall.ret)
    => StoredDomain(LastCall.single_response) \notin get_already_stored(pn_organizations)

\* C9: when the candidate's domain was not stored, exactly one
\* contact-details row matches the company and a licence refers to it, the
\* call links those licences to the row it inserted, keeps that row, adds
\* exactly 1 to ct_stored and returns True.
C9_LinksTheInsertedRow ==
    (/\ calls # <<>>
     /\ ~Falsy(LastCall.single_response.name)
     /\ ~Falsy(LastCall.single_response.domain)
     /\ StoredDomain(LastCall.single_response) \notin get_already_stored(LastCall.before)
     /\ \E lcd \in pn_license_contact_details :
           /\ get_license_contact_details_id_list(pn_license_contact_details,
                                                  LastCall.company) = {lcd.id}
           /\ \E l \in pn_licenses : l.license_contact_details_id = lcd.id)
    => /\ LastCall.ret
       /\ LastCall.ct_after = LastCall.ct_before + 1
       /\ \E o \in RowsOfDomain(pn_organizations, StoredDomain(LastCall.single_response)) :
             \A l \in pn_licenses :
                l.license_contact_details_id
                    \in get_license_contact_details_id_list(pn_license_contact_details,
                                                            LastCall.company)
                => l.organizations_id = o.id

CountIn(sql, statement) == Cardinality({i \in 1..Len(sql) : sql[i] = statement})

TwiceInARow(k) ==
    /\ k \in 1..(Len(calls) - 1)
    /\ calls[k + 1].single_response = calls[k].single_response
    /\ ~Falsy(calls[k].single_response.name)
    /\ ~Falsy(calls[k].single_response.domain)

IdempotentAt(k) ==
    /\ CountIn(calls[k].sql, "INSERT pn_organizations") = 1
    /\ calls[k + 1].sql = <<>>
    /\ calls[k + 1].ct_after <= calls[k].ct_before + 1
    /\ \A c \in {calls[k], calls[k + 1]} :
          Cardinality(RowsOfDomain(c.after, StoredDomain(c.single_response))) <= 1

\* C10 as stated: two calls in a row on the same candidate, whose domain
\* was not stored, make one INSERT in the first call and no write in the
\* second; ct_stored grows by at most 1 and the domain never has two rows.
C10_SecondCallWritesNothing_Original ==
    \A k \in 1..(Len(calls) - 1) :
       (TwiceInARow(k)
        /\ StoredDomain(calls[k].single_response) \notin get_already_stored(calls[k].before))
       => IdempotentAt(k)

\* C10 as amended: the same, when the first call stored and linked the
\* organization (returned True).
C10_SecondCallWritesNothing ==
    \A k \in 1..(Len(calls) - 1) :
       (TwiceInARow(k) /\ calls[k].ret) => IdempotentAt(k)

\* the first call stored and linked the candidate, the second wrote nothing
C10_Witness ==
    /\ Len(calls) >= 2
    /\ TwiceInARow(1)
    /\ calls[1].ret
    /\ Inserted(calls[1])
    /\ calls[2].sql = <<>>
    /\ ~calls[2].raised

\* the call reads a candidate with a name and a domain
HasNameAndDomain(c) ==
    ~Falsy(c.single_response.name) /\ ~Falsy(c.single_response.domain)

\* C11: pn_organizations holds at most one row per domain after any
\* sequence of calls; a call sends an INSERT only when the candidate's
\* domain (trailing '/' stripped) was absent, an UPDATE of
\* pn_organizations only when it was present, and never both.
C11_OneRowPerDomain ==
    /\ \A o1, o2 \in pn_organizations : o1.domain = o2.domain => o1 = o2
    /\ \A k \in 1..Len(calls) :
          LET c == calls[k]
              present == RowsOfDomain(c.before, StoredDomain(c.single_response)) # {}
          IN /\ CountIn(c.sql, "INSERT pn_organizations") > 0 => ~present
             /\ CountIn(c.sql, "UPDATE pn_organizations") > 0 => present
             /\ ~(/\ CountIn(c.sql, "INSERT pn_organizations") > 0
                  /\ CountIn(c.sql, "UPDATE pn_organizations") > 0)
             /\ HasNameAndDomain(c) /\ ~present
                    => CountIn(c.sql, "INSERT pn_organizations") = 1

\* a first call inserted and kept the organization, a second call on the
\* same domain took the UPDATE path, and the domain has one row
C11_Witness ==
    /\ Len(calls) = 2
    /\ Inserted(calls[1])
    /\ calls[1].ret
    /\ StoredDomain(calls[2].single_response) = StoredDomain(calls[1].single_response)
    /\ calls[2].sql = <<"UPDATE pn_organizations">>
    /\ Cardinality(RowsOfDomain(pn_organizations,
                                StoredDomain(calls[2].single_response))) = 1

\* the stored row of the candidate's domain before the last call
RowBefore == CHOOSE o \in LastCall.before :
                o.domain = StoredDomain(LastCall.single_response)

\* a compared column of the stored row differs from the candidate's
Differs ==
    \/ RowBefore.name # LastCall.single_response.name
    \/ RowBefore.data # LastCall.single_response.data

AlreadyStored ==
    /\ calls # <<>>
    /\ HasNameAndDomain(LastCall)
    /\ RowsOfDomain(LastCall.before, StoredDomain(LastCall.single_response)) # {}

\* C12: when the candidate's domain is stored, a candidate that differs
\* from the row in a column other than the id and pgres_last_updated makes
\* exactly one UPDATE, after which the row has the candidate's values; an
\* identical candidate makes no write and leaves ct_stored as it was.
C12_UpdateOnlyWhenDifferent ==
    AlreadyStored
    => /\ Differs
          => /\ LastCall.sql = <<"UPDATE pn_organizations">>
             /\ ~LastCall.raised
             /\ LastCall.after =
                   (LastCall.before \ {RowBefore})
                   \cup {[id |-> RowBefore.id,
                          name |-> LastCall.single_response.name,
                          domain |-> RowBefore.domain,
                          data |-> LastCall.single_response.data,
                          pgres_last_updated |-> cur_time]}
       /\ ~Differs
          => /\ LastCall.sql = <<>>
             /\ LastCall.after = LastCall.before
             /\ LastCall.ct_after = LastCall.ct_before

\* the last call found the domain stored with other values and updated it
C12_Witness ==
    /\ AlreadyStored
    /\ Differs
    /\ LastCall.sql = <<"UPDATE pn_organizations">>
    /\ LastCall.after # LastCall.before

(***************************************************************************)
(* The queries of a record, the start of the process and the throttle      *)
(***************************************************************************)
\* the record being handled has a domain that is neither malformed, of an
\* ISP, nor queried before
NewDomainRecord ==
    /\ pc = "handle"
    /\ ~Falsy(get_domain_from(email))
    /\ get_domain_from(email) \notin isp_domains
    /\ get_domain_from(email) \notin domains_queried

\* C13: handling such a record sends exactly one domain query; a name query
\* is sent if and only if the domain query was answered with zero items,
\* and after it; store_one_response is called at most once, and only on the
\* item pick_match chose.
C13_QueriesPerRecord ==
    [][NewDomainRecord =>
         LET new_requests == SubSeq(requests', Len(requests) + 1, Len(requests'))
             new_responses == SubSeq(responses', Len(responses) + 1, Len(responses'))
             new_calls == SubSeq(calls', Len(calls) + 1, Len(calls'))
         IN /\ Len(new_requests) \in {1, 2}
            /\ Len(new_responses) = Len(new_requests)
            /\ new_requests[1] = [kind |-> "domain", key |-> get_domain_from(email)]
            /\ Len(new_requests) = 2
                  => new_requests[2] = [kind |-> "name", key |-> company]
            /\ Len(new_requests) = 2
                  <=> (new_responses[1].body = "items" /\ new_responses[1].len = 0)
            /\ Len(new_calls) <= 1
            /\ Len(new_calls) = 1
                  => /\ ~Falsy(pick'.name)
                     /\ new_calls[1].single_response = items'[pick'.ix + 1]]_vars

\* a record was handled by a domain query that found nothing, then a name
\* query, then a call of store_one_response on the item chosen
C13_Witness ==
    /\ pc = "handled"
    /\ Len(requests) = 2
    /\ requests[1].kind = "domain"
    /\ requests[2].kind = "name"
    /\ responses[1].len = 0
    /\ Len(calls) = 1
    /\ ~Falsy(pick.name)

BackoffSleeps == {i \in 1..Len(slept) : slept[i].unit = "secs"}

ThrottleSleeps == {i \in 1..Len(slept) : slept[i].unit = "SLEEP_SECS"}

\* C14: connect_to_cb_or_die makes at most 4 attempts; after the k-th
\* failed attempt it waits 30 * k seconds; it makes no attempt after the
\* first success; after 4 failures the process ends, no record having been
\* read, queried or stored.
C14_ConnectRetries ==
    /\ [](/\ backoff_multiplier \in 1..5
          /\ Cardinality(BackoffSleeps) = backoff_multiplier - 1
          /\ \A k \in 1..(backoff_multiplier - 1) :
                slept[k] = [unit |-> "secs", times |-> 30 * k])
    /\ [][pc # "connect" => backoff_multiplier' = backoff_multiplier]_vars
    /\ [](backoff_multiplier = 5
            => /\ pc \in {"connect", "exited"}
               /\ items_examined = 0
               /\ requests = <<>>
               /\ calls = <<>>)
    /\ [][(pc = "connect" /\ backoff_multiplier = 5) => pc' = "exited"]_vars

\* four attempts failed, the waits were of 30, 60, 90 and 120 seconds, and
\* the process has ended
C14_Witness ==
    /\ pc = "exited"
    /\ backoff_multiplier = 5
    /\ Len(slept) = 4
    /\ slept[4].times = 120
    /\ items_examined = 0

\* C15: the exit code is 0 only on normal completion; it is not 0 when the
\* connection could not be made and when an environment variable is
\* missing.
C15_ExitCodes ==
    /\ exit_code = 0 => pc = "reported"
    /\ pc = "exited" => exit_code \notin {0, NoneIx}

\* C16: the throttle sleeps once each time the count of not-skipped records
\* reaches a positive multiple of 25 and at no other time: floor(n / 25)
\* sleeps in a run over n records, none before the first record, and never
\* more than 25 records between two sleeps.
C16_ThrottleEvery25 ==
    /\ pc \in {"start", "connect", "exited"} => ThrottleSleeps = {}
    /\ pc \in {"loop", "handle", "handled"}
          => Cardinality(ThrottleSleeps) =
                IF items_not_skipped = 0 THEN 0 ELSE (items_not_skipped - 1) \div 25
    /\ pc \in {"closed", "reported"}
          => Cardinality(ThrottleSleeps) = items_examined \div 25
    /\ items_not_skipped = items_examined

\* a run over 50 records has ended, with two sleeps of the throttle
C16_Witness ==
    /\ pc = "closed"
    /\ items_examined = 50
    /\ Cardinality(ThrottleSleeps) = 2

\* the run was ended by an exception
Aborted == pc = "crashed" \/ (pc = "exited" /\ exit_code = 1)

\* C17: a response of a status other than 200 is logged with its status
\* code, is tallied as a domain miss (a name miss for a name query) and
\* never ends the run.
C17_Non200IsAMiss ==
    /\ \A i \in 1..Len(responses) :
          responses[i].status_code # 200
          => \E j \in 1..Len(warnings) :
                /\ warnings[j].message = "Get url returns status"
                /\ warnings[j].arg = responses[i].status_code
    /\ (responses # <<>> /\ responses[Len(responses)].status_code # 200) => ~Aborted
    /\ ~Aborted
          => /\ Cardinality({i \in 1..Len(responses) :
                                /\ responses[i].kind = "domain"
                                /\ responses[i].status_code # 200}) <= domain_misses
             /\ Cardinality({i \in 1..Len(responses) :
                                /\ responses[i].kind = "name"
                                /\ responses[i].status_code # 200}) <= name_misses

\* C18: past the connect, when every call of the provider and of the store
\* returns, nothing ends the run before print_report, which comes after
\* the last record.
C18_RunReachesReport ==
    /\ Aborted
          => \/ responses # <<>> /\ responses[Len(responses)].body = "not_json"
             \/ calls # <<>> /\ LastCall.raised
    /\ pc = "reported" => exit_code = 0 /\ email = <<>>

\* the counters and caches a record's handling may change
tallies == <<ct_isps, domain_misses, single_domain_hits, multiple_domain_hits,
             name_misses, single_name_hits, multiple_name_hits, ct_name_queries,
             repeat_domains>>

\* C19: for a record whose e-mail gives no domain, handle_company_and_email
\* logs one warning, sends no query, writes nothing to the store, leaves
\* domains_queried and every counter as they were, and the run goes on with
\* the next record.
C19_BadEmailOnlyLogs ==
    [][(pc = "handle" /\ get_domain_from(email) = NoneStr)
          => /\ Len(warnings') = Len(warnings) + 1
             /\ requests' = requests
             /\ responses' = responses
             /\ UNCHANGED <<pn_organizations, pn_license_contact_details, pn_licenses,
                            calls, ct_stored>>
             /\ domains_queried' = domains_queried
             /\ UNCHANGED tallies
             /\ UNCHANGED <<items_examined, items_skipped, items_not_skipped>>
             /\ pc' = "handled"]_vars

\* a malformed e-mail was handled after a record that was queried
C19_Witness ==
    /\ pc = "handled"
    /\ email # <<>>
    /\ get_domain_from(email) = NoneStr
    /\ items_examined = 2
    /\ requests # <<>>

\* C20: for a record whose domain is an ISP's, the only change is
\* ct_isps + 1: no query, no store write, domains_queried and the other
\* counters as they were, and the run goes on.
C20_IspOnlyCounted ==
    [][(/\ pc = "handle"
        /\ get_domain_from(email) # NoneStr
        /\ get_domain_from(email) \in isp_domains)
          => /\ ct_isps' = ct_isps + 1
             /\ requests' = requests
             /\ responses' = responses
             /\ UNCHANGED <<pn_organizations, pn_license_contact_details, pn_licenses,
                            calls, ct_stored>>
             /\ domains_queried' = domains_queried
             /\ UNCHANGED <<domain_misses, single_domain_hits, multiple_domain_hits,
                            name_misses, single_name_hits, multiple_name_hits,
                            ct_name_queries, repeat_domains>>
             /\ UNCHANGED <<items_examined, items_skipped, items_not_skipped>>
             /\ warnings' = warnings
             /\ exit_code' = exit_code
             /\ pc' = "handled"]_vars

\* the record of an ISP's domain was handled after a record that was queried
C20_Witness ==
    /\ pc = "handled"
    /\ email # <<>>
    /\ get_domain_from(email) \in isp_domains
    /\ ct_isps = 1
    /\ items_examined = 2
    /\ requests # <<>>

(***************************************************************************)
(* shorten and get_initials                                                *)
(***************************************************************************)
\* the segments of a name once its trailing dots are stripped
Segments(name) == split_on(rstrip(name, "."), ".")

IsTld(segment) == lower(segment) \in tlds

\* the number of segments left when the last one is dropped for as long as
\* it is a TLD, the only remaining one included
RECURSIVE LeftAfterDropping(_)
LeftAfterDropping(segs) ==
    IF segs # <<>> /\ IsTld(segs[Len(segs)])
    THEN LeftAfterDropping(SubSeq(segs, 1, Len(segs) - 1))
    ELSE Len(segs)

Shortened == pc = "once"

\* C21 as stated: shorten strips trailing dots, splits on '.', drops the
\* last segment for as long as it is a TLD and returns the rightmost
\* segment left, the empty string when no segment is left.
C21_ShortenDropsTlds_Original ==
    Shortened =>
        LET left == LeftAfterDropping(Segments(company))
        IN domain = IF left = 0 THEN <<>> ELSE Segments(company)[left]

\* C21 amended: shorten strips trailing dots, splits on '.', drops the last
\* segment for as long as it is a TLD and is not the only segment left,
\* and returns the rightmost segment left: segment k, every segment after
\* which is a TLD, and which is the first segment or not a TLD.  A name
\* made of TLDs only gives its first segment, not the empty string.
\* shorten('Example.Co.Inc.') with the TLD set {'inc', 'co'} is 'Example'.
C21_ShortenDropsTlds ==
    Shortened =>
        /\ \E k \in 1..Len(Segments(company)) :
              /\ \A j \in (k + 1)..Len(Segments(company)) : IsTld(Segments(company)[j])
              /\ k = 1 \/ ~IsTld(Segments(company)[k])
              /\ domain = Segments(company)[k]
        /\ (company = Str("Example.Co.Inc.") /\ tlds = {Str("inc"), Str("co")})
              => domain = Str("Example")

\* a name ending in a dot whose last two segments are TLDs in mixed case
C21_Witness ==
    /\ Shortened
    /\ company = Str("Example.Co.Inc.")
    /\ tlds = {Str("inc"), Str("co")}
    /\ domain = Str("Example")

\* C22: shorten is idempotent: shortening what shorten returned gives it
\* back, for every name and every TLD set.
C22_ShortenIdempotent == [][pc = "once" => domain' = domain]_vars

\* a name shorten changed, shortened a second time
C22_Witness ==
    /\ pc = "twice"
    /\ company = Str("a..ca")
    /\ tlds = {Str("ca")}
    /\ domain = <<>>

\* the 1-based places of the characters get_initials is to take
InitialPlaces(s) == {i \in 1..Len(s) : i = 1 \/ s[i - 1] = " "}

\* C23: get_initials(s) is the first character of s followed by, in order,
\* every character that immediately follows a space in s, and the empty
\* string for the empty s; 'International Business Machines' gives 'IBM'.
C23_InitialsOfName ==
    pc = "returned" =>
        /\ Len(domain) = Cardinality(InitialPlaces(company))
        /\ \A i \in InitialPlaces(company) :
              domain[Cardinality({j \in InitialPlaces(company) : j <= i})] = company[i]
        /\ company = <<>> => domain = <<>>
        /\ company = Str("International Business Machines") => domain = Str("IBM")

\* a name with two spaces in a row: the second space follows a space
C23_Witness ==
    /\ pc = "returned"
    /\ company = Str("a  B")
    /\ domain = Str("a B")

(***************************************************************************)
(* pick_match: the short company name, the space-stripped prefix and the   *)
(* initials                                                                *)
(***************************************************************************)
\* C24: pick_match returns (None, None) at once, whatever the domain and
\* the response list hold, when len(company) < 2.
C24_ShortCompanyGivesNone ==
    (Returned /\ Len(company) < 2) => pick = NoPick

\* a one-letter company name and a response list holding an exact match
C24_Witness ==
    /\ Returned
    /\ Len(company) < 2
    /\ \E ix \in ItemIxs : ExactMatch(ItemAt(ix))
    /\ pick = NoPick

\* the lower-cased name of the item, its spaces removed, starts with the token
NoSpacesPrefix(item) ==
    startswith(remove_char(lower(response_of(item)), " "), lower(domain))

NoExactNoInitials == \A k \in ItemIxs : ~ExactMatch(ItemAt(k)) /\ ~InitialsMatch(ItemAt(k))

\* another candidate, of another name, accumulates too
AnotherAccumulates(i) ==
    \E j \in ItemIxs :
        Accumulates(ItemAt(j)) /\ strip(ItemAt(j).name) # strip(ItemAt(i).name)

\* candidate i was added to the accumulating set and the scan ran to its
\* end, where pick_match returned (None, None)
OnlyAccumulated(i) ==
    /\ InList(strip(ItemAt(i).name), TheScan.candidate_list)
    /\ TheScan.broke_at = NoneIx
    /\ pick = NoPick

\* C26 as stated: a candidate whose lower-cased, space-stripped name equals
\* or starts with the domain token, the list holding no exact and no
\* initials match, is only added to the accumulating set: when a candidate
\* of another name accumulates too, pick_match returns (None, None).
C26_NoSpacesPrefixAccumulates_Original ==
    (Returned /\ Len(company) >= 2)
    => \A i \in ItemIxs :
          (NoSpacesPrefix(ItemAt(i)) /\ NoExactNoInitials /\ AnotherAccumulates(i))
          => OnlyAccumulated(i)

\* C26 amended: the same for a candidate that the Venture rule does not
\* skip, in a list no candidate of which has a space-stripped name equal
\* to the token; a candidate (not skipped by the Venture rule) whose
\* space-stripped name equals the token ends the scan and is returned,
\* when no earlier candidate ended it.
C26_NoSpacesPrefixAccumulates ==
    (Returned /\ Len(company) >= 2)
    => \A i \in ItemIxs :
          /\ (/\ NoSpacesPrefix(ItemAt(i))
              /\ ~VentureExcluded(ItemAt(i))
              /\ NoExactNoInitials
              /\ \A k \in ItemIxs : ~NoSpacesExactMatch(ItemAt(k))
              /\ AnotherAccumulates(i))
             => OnlyAccumulated(i)
          /\ (/\ NoSpacesExactMatch(ItemAt(i))
              /\ \A k \in 0..(i - 1) : /\ ~ExactMatch(ItemAt(k))
                                       /\ ~InitialsMatch(ItemAt(k))
                                       /\ ~NoSpacesExactMatch(ItemAt(k)))
             => (pick.ix = i /\ TheScan.broke_at = i)

\* a name that starts with the token only once its spaces are removed
\* accumulated beside a candidate of another name
C26_Witness ==
    /\ Returned
    /\ Len(company) >= 2
    /\ Len(items) = 2
    /\ NoSpacesPrefix(ItemAt(0))
    /\ ~is_prefix(response_of(ItemAt(0)), domain)
    /\ ~VentureExcluded(ItemAt(0))
    /\ NoExactNoInitials
    /\ \A k \in ItemIxs : ~NoSpacesExactMatch(ItemAt(k))
    /\ AnotherAccumulates(0)
    /\ OnlyAccumulated(0)

FirstInitialsIx(i) ==
    /\ i \in ItemIxs
    /\ InitialsMatch(ItemAt(i))
    /\ \A j \in 0..(i - 1) : ~InitialsMatch(ItemAt(j))

\* candidate i ended the scan and is returned alone
StoppedAt(i) ==
    /\ pick = [ix |-> i, name |-> strip(ItemAt(i).name)]
    /\ TheScan.broke_at = i
    /\ TheScan.pick_ix_list = <<i>>

\* C27 as stated: with len(company) >= 2, the first initials match i, when
\* no earlier candidate is an exact match, ends the scan and is returned,
\* the candidates accumulated so far being discarded.
C27_FirstInitialsWins_Original ==
    (Returned /\ Len(company) >= 2)
    => \A i \in ItemIxs :
          (FirstInitialsIx(i) /\ \A j \in 0..(i - 1) : ~ExactMatch(ItemAt(j)))
          => StoppedAt(i)

\* C27 amended: the same, when moreover no earlier candidate is a
\* space-stripped exact match (which ends the scan as an exact match does).
C27_FirstInitialsWins ==
    (Returned /\ Len(company) >= 2)
    => \A i \in ItemIxs :
          (FirstInitialsIx(i)
           /\ \A j \in 0..(i - 1) : /\ ~ExactMatch(ItemAt(j))
                                    /\ ~NoSpacesExactMatch(ItemAt(j)))
          => StoppedAt(i)

\* an initials match was returned after an earlier candidate had accumulated
C27_Witness ==
    /\ Returned
    /\ Len(company) >= 2
    /\ Len(items) = 2
    /\ FirstInitialsIx(1)
    /\ ~ExactMatch(ItemAt(1))
    /\ Accumulates(ItemAt(0))
    /\ ~ExactMatch(ItemAt(0))
    /\ ~NoSpacesExactMatch(ItemAt(0))
    /\ StoppedAt(1)

(***************************************************************************)
(* The run: organizations and licences, tallies and queries                *)
(***************************************************************************)
\* the record was handled and the loop is back at its head
RecordProcessed == pc = "loop" /\ items_examined > 0

Linked(org) == \E l \in pn_licenses : l.organizations_id = org.id

\* C25: after each record has been processed, every pn_organizations row
\* inserted during the run (the table was empty at its start) is referred
\* to by a pn_licenses row, also when two records of different domains
\* carry the same company name.
C25_NoUnlinkedOrganization ==
    RecordProcessed => \A org \in pn_organizations : Linked(org)

\* the queries of a kind sent so far
QueriesIssued(kind) == Cardinality({i \in 1..Len(requests) : requests[i].kind = kind})

\* C30: after every processed record the tallies agree with the queries
\* issued: ct_name_queries = domain_misses = name_misses + single_name_hits
\* + multiple_name_hits, and domain_misses + single_domain_hits +
\* multiple_domain_hits = |domains_queried| = the domain queries issued.
C30_TalliesAgreeWithQueries ==
    (pc \in {"loop", "closed", "reported"})
    => /\ ct_name_queries = domain_misses
       /\ domain_misses = name_misses + single_name_hits + multiple_name_hits
       /\ domain_misses + single_domain_hits + multiple_domain_hits
             = Cardinality(domains_queried)
       /\ Cardinality(domains_queried) = QueriesIssued("domain")
       /\ ct_name_queries = QueriesIssued("name")

\* two records processed: one domain query missed and was followed by a
\* query by name, the other hit
C30_Witness ==
    /\ pc = "loop"
    /\ items_examined = 2
    /\ domain_misses = 1
    /\ ct_name_queries = 1
    /\ single_domain_hits + multiple_domain_hits = 1
    /\ QueriesIssued("domain") = 2

(***************************************************************************)
(* pick_by_matches                                                         *)
(***************************************************************************)
\* the lower-cased word tokens of the company name and of the candidate
SourceTokens == split_ws(lower(company))

CandidateTokens == split_ws(lower(items[1].name))

\* the tokens the two names share, and the candidate's words that the
\* company name does not hold
SharedTokens ==
    {w \in {SourceTokens[i] : i \in 1..Len(SourceTokens)} : InList(w, CandidateTokens)}

MissingWords == {k \in 1..Len(CandidateTokens) : ~InList(CandidateTokens[k], SourceTokens)}

\* what pick_by_matches holds in ct_word_matches and ct_word_mismatches
WordMatches == ct_matches(split_on(lower(company), " "), CandidateTokens)

WordMismatches == Len(CandidateTokens) - WordMatches

Added == pick.ix # NoneIx

\* C28: in pick_by_matches, matches is the number of word tokens the two
\* names share and mismatches the number of candidate words the company
\* name does not hold, never negative; matches > 0 with no candidate word
\* missing adds the candidate (first sub-rule) -- also for a company name
\* that repeats a word or holds consecutive spaces.
C28_MatchesAndMismatches ==
    Returned =>
        /\ WordMatches = Cardinality(SharedTokens)
        /\ WordMismatches = Cardinality(MissingWords)
        /\ WordMismatches >= 0
        /\ (WordMatches # 0 /\ WordMismatches = 0)
              <=> (SharedTokens # {} /\ MissingWords = {})
        /\ (SharedTokens # {} /\ MissingWords = {}) => Added

\* the length of the leading run on which the two token lists agree
RECURSIVE LeadingRun(_, _)
LeadingRun(source, candidate) ==
    IF source # <<>> /\ candidate # <<>> /\ Head(source) = Head(candidate)
    THEN 1 + LeadingRun(Tail(source), Tail(candidate))
    ELSE 0

\* C29: a candidate with word matches and at least one mismatch is added
\* exactly when the two token lists agree on a non-empty leading run and
\* every candidate word after the run is a mismatch, i.e. run + mismatches
\* = number of candidate words.
C29_MismatchesAtTheEnd ==
    (Returned /\ SharedTokens # {} /\ MissingWords # {})
    => (Added <=> /\ LeadingRun(SourceTokens, CandidateTokens) > 0
                  /\ LeadingRun(SourceTokens, CandidateTokens) + Cardinality(MissingWords)
                        = Len(CandidateTokens))

(***************************************************************************)
(* store_one_response on a stored domain, and ct_stored                    *)
(***************************************************************************)
\* C31: when the candidate's domain is already stored, store_one_response
\* sends no INSERT, no DELETE and no write to pn_licenses, which stays as
\* it was, whether or not it updates the row, and it never returns True.
C31_StoredDomainOnlyUpdates ==
    /\ [](AlreadyStored
           => /\ CountIn(LastCall.sql, "INSERT pn_organizations") = 0
              /\ CountIn(LastCall.sql, "DELETE pn_organizations") = 0
              /\ CountIn(LastCall.sql, "UPDATE pn_licenses") = 0
              /\ ~LastCall.ret)
    /\ [][(calls' # calls /\ AlreadyStored') => pn_licenses' = pn_licenses]_vars

\* a company with one contact-details row that licences refer to, for a
\* candidate whose domain was stored with other values: the row was
\* updated, no licence was linked, and the call did not return True
C31_Witness ==
    /\ AlreadyStored
    /\ Differs
    /\ LastCall.company = Str("Acme Corp")
    /\ LastCall.sql = <<"UPDATE pn_organizations">>
    /\ ~LastCall.ret
    /\ \A l \in pn_licenses : l.organizations_id # RowBefore.id

\* the calls that inserted an organization and linked it, and the calls
\* whose UPDATE of pn_organizations affected exactly one row
LinkedInserts == {k \in 1..Len(calls) : Inserted(calls[k]) /\ calls[k].ret}

UpdatesOfOneRow ==
    {k \in 1..Len(calls) :
        /\ calls[k].sql = <<"UPDATE pn_organizations">>
        /\ Cardinality(RowsOfDomain(calls[k].before,
                                    StoredDomain(calls[k].single_response))) = 1}

\* C32: at every point of a run ct_stored is the number of calls that
\* inserted and linked an organization plus the number of calls whose
\* UPDATE affected exactly one row; no other call and no step without a
\* call (an unresolved, a malformed, an ISP or a repeat record) changes it;
\* and it never exceeds the number of domain queries issued.
C32_CtStoredCounts ==
    /\ [](/\ ct_stored = Cardinality(LinkedInserts) + Cardinality(UpdatesOfOneRow)
           /\ \A k \in 1..Len(calls) :
                 k \notin (LinkedInserts \cup UpdatesOfOneRow)
                 => calls[k].ct_after = calls[k].ct_before
           /\ ct_stored <= QueriesIssued("domain"))
    /\ [][calls' = calls => ct_stored' = ct_stored]_vars

\* a first record inserted and linked an organization, a second one
\* resolved to the same stored domain with other values and updated it
C32_Witness ==
    /\ Len(calls) = 2
    /\ 1 \in LinkedInserts
    /\ 2 \in UpdatesOfOneRow
    /\ ct_stored = 2
    /\ QueriesIssued("domain") = 2

(***************************************************************************)
(* pick_match: the index and the name it returns                           *)
(***************************************************************************)
\* C33: when pick_match returns an index, it is an index of the response
\* items and the name returned with it is the name of that item, up to
\* surrounding whitespace; it returns an index and a name, or neither.
C33_IndexAndNameAgree ==
    Returned =>
        /\ pick.ix # NoneIx
              => /\ pick.ix \in ItemIxs
                 /\ strip(pick.name) = strip(ItemAt(pick.ix).name)
        /\ pick.ix = NoneIx <=> pick.name = NoneStr

\* the second item was returned although candidate_list had taken two
\* spellings of its name for the one index in pick_ix_list
C33_Witness ==
    /\ Returned
    /\ Len(items) = 2
    /\ pick.ix = 1
    /\ Len(TheScan.candidate_list) = 2
    /\ Len(TheScan.pick_ix_list) = 1
    /\ strip(pick.name) = strip(ItemAt(1).name)

(***************************************************************************)
(* The throttle and the requests                                           *)
(***************************************************************************)
\* the numbers of requests sent before each sleep of the throttle, in
\* order, between 0 and the number of requests sent so far
WindowEnds ==
    LET sleeps == SelectSeq(slept, LAMBDA s : s.unit = "SLEEP_SECS")
    IN <<0>> \o [j \in 1..Len(sleeps) |-> sleeps[j].after] \o <<Len(requests)>>

\* the requests of a kind sent after the first lo requests, up to the hi-th
QueriesBetween(lo, hi, kind) ==
    Cardinality({i \in (lo + 1)..hi : requests[i].kind = kind})

\* C34: between two consecutive sleeps of the throttle, before the first
\* one and since the last one, the driver sends at most 25 domain queries
\* and at most 25 name queries, at most 50 requests.
C34_RequestsBetweenSleeps ==
    \A w \in 1..(Len(WindowEnds) - 1) :
        /\ QueriesBetween(WindowEnds[w], WindowEnds[w + 1], "domain") <= ThrottleEvery
        /\ QueriesBetween(WindowEnds[w], WindowEnds[w + 1], "name") <= ThrottleEvery
        /\ WindowEnds[w + 1] - WindowEnds[w] <= 2 * ThrottleEvery

\* two sleeps: fewer than 50 requests before the first, some records
\* having sent none, and 50 requests between the first and the second
C34_Witness ==
    /\ Len(WindowEnds) = 4
    /\ warnings # <<>>
    /\ WindowEnds[2] \in 1..49
    /\ WindowEnds[3] - WindowEnds[2] = 50



(***************************************************************************)
(* check_mismatches_are_at_end_of_response_list on any two lists           *)
(***************************************************************************)
\* the value is one Python takes for false
FalsyValue(v) ==
    \/ v.type = "int" /\ v.value = 0
    \/ v.type = "bool" /\ v.value = FALSE

\* either list is empty, or the lists differ in their first word
EmptyOrFirstWordsDiffer ==
    \/ frame.company_word_list = <<>>
    \/ frame.response_word_list = <<>>
    \/ frame.company_word_list[1] # frame.response_word_list[1]

\* C37: check_mismatches_are_at_end_of_response_list returns for every
\* pair of word lists, of equal length or not, agreeing on every position
\* or not; no subscript of it is beyond the end of company_word_list or of
\* response_word_list; and what it returns is falsy whenever either list
\* is empty or the first words differ.
C37_MismatchCheckIsSafe ==
    /\ [](pc # "IndexError")
    /\ [](pc = "while" => /\ frame.ix < Len(frame.company_word_list)
                          /\ frame.ix < Len(frame.response_word_list))
    /\ [](pc = "returned" /\ EmptyOrFirstWordsDiffer => FalsyValue(frame.ret))
    /\ <>(pc = "returned")

\* the call returned for a company list that is longer than the response
\* list and agrees with it on every position of the latter
C37_Witness ==
    /\ pc = "returned"
    /\ frame.company_word_list = <<Str("acme"), Str("corp"), Str("acme")>>
    /\ frame.response_word_list = <<Str("acme"), Str("corp")>>
    /\ frame.ix = Len(frame.response_word_list)
    /\ frame.ret = BoolValue(TRUE)


(***************************************************************************)
(* LoadLicenses: inserts, updates and the order of the tables              *)
(***************************************************************************)
\* the entries of sql_log of calls that came to their statement
Calls == {i \in 1..Len(sql_log) : sql_log[i].stmt # "COMMIT" /\ sql_log[i].raised = ""}

\* the key set of a table
KeySetOf(table) ==
    IF table = "pn_contacts" THEN contacts_key_set
    ELSE IF table = "pn_addons" THEN addons_key_set
    ELSE IF table = "pn_partner_details" THEN partner_details_key_set
    ELSE IF table = "pn_license_contact_details" THEN lcd_key_set
    ELSE license_key_set

\* the licence of the call is, in the compared columns, the row stored
\* under its key
Identical(e) == e.before = {e.wanted}

\* entries i and j are of one run, one table and one key
SameKey(i, j) ==
    /\ sql_log[i].run_no = sql_log[j].run_no
    /\ sql_log[i].table = sql_log[j].table
    /\ sql_log[i].key = sql_log[j].key

\* C35: in LoadLicenses, for each of the five tables, a licence whose key
\* is not in the key set is inserted (one row) and its key is then in the
\* set; a licence whose key is in the set causes an UPDATE if and only if
\* it differs from the stored row, and no statement when it is identical;
\* so no key is inserted twice into a table within one run, however many
\* licences share it.
C35_InsertOncePerKey ==
    \A i \in Calls :
        LET e == sql_log[i]
        IN /\ ~e.in_set => /\ e.stmt = "INSERT"
                           /\ e.rowcount = 1
                           /\ e.run_no = run_no => e.key \in KeySetOf(e.table)
           /\ e.in_set => /\ (e.stmt = "UPDATE") <=> ~Identical(e)
                          /\ Identical(e) => e.stmt = "none"
           /\ e.stmt = "INSERT" =>
                  \A j \in Calls \ {i} :
                      sql_log[j].stmt = "INSERT" => ~SameKey(i, j)

\* a run ended in which a key was inserted and met again with an identical
\* licence, and a key was inserted and met again with a different one
C35_Witness ==
    /\ pc = "stored"
    /\ \E i \in Calls, j \in Calls :
          /\ i < j /\ SameKey(i, j) /\ sql_log[i].run_no = run_no
          /\ sql_log[i].stmt = "INSERT"
          /\ sql_log[j].in_set /\ sql_log[j].stmt = "none"
    /\ \E i \in Calls, j \in Calls :
          /\ i < j /\ SameKey(i, j) /\ sql_log[i].run_no = run_no
          /\ sql_log[i].stmt = "INSERT"
          /\ sql_log[j].in_set /\ sql_log[j].stmt = "UPDATE" /\ sql_log[j].rowcount = 1

\* the place of an entry of sql_log in the order of fill_pn_tables
Phase(e) ==
    IF e.table \in {"pn_contacts", "pn_addons", "pn_partner_details"} THEN 1
    ELSE IF e.table = "commit_contacts" THEN 2
    ELSE IF e.table = "pn_license_contact_details" THEN 3
    ELSE IF e.table = "commit_lcd" THEN 4
    ELSE IF e.table = "pn_licenses" THEN 5
    ELSE 6

\* the run at work has an entry of the table
Reached(table) ==
    \E i \in 1..Len(sql_log) : sql_log[i].run_no = run_no /\ sql_log[i].table = table

\* the committed rows of a table hold the key
CommittedKey(table, key) == \E r \in committed[table] : r.key = key

\* the contacts, the add-on and the partner details of every licence of
\* the export are committed
ContactsCommitted ==
    \A i \in 1..Len(mkt_data) :
        LET details == mkt_data[i].contactDetails
        IN /\ details.billingContact.present
                => CommittedKey("pn_contacts", details.billingContact.email)
           /\ details.technicalContact.present
                => CommittedKey("pn_contacts", details.technicalContact.email)
           /\ CommittedKey("pn_addons", mkt_data[i].addonKey)
           /\ mkt_data[i].partnerDetails.present
                => CommittedKey("pn_partner_details",
                                mkt_data[i].partnerDetails.partnerName)

\* the contact details of every licence of the export are committed
ContactDetailsCommitted ==
    \A i \in 1..Len(mkt_data) :
        CommittedKey("pn_license_contact_details",
                     <<mkt_data[i].contactDetails.company,
                       mkt_data[i].contactDetails.country,
                       mkt_data[i].contactDetails.region>>)

\* C36: fill_pn_tables makes and commits the contacts, add-ons and partner
\* details of all licences before it builds a row of
\* pn_license_contact_details, and all of those rows before a row of
\* pn_licenses; so every look-up of the id of a contact, an add-on or a
\* contact-details row that build_lcd_key_as_list or
\* make_license_id_insert_list makes finds its row.
C36_TablesInOrder ==
    /\ \A i \in 1..Len(sql_log), j \in 1..Len(sql_log) :
          i < j /\ sql_log[i].run_no = sql_log[j].run_no
             => Phase(sql_log[i]) <= Phase(sql_log[j])
    /\ Reached("pn_license_contact_details") => ContactsCommitted
    /\ Reached("pn_licenses") => ContactDetailsCommitted
    /\ \A i \in 1..Len(sql_log) :
          /\ sql_log[i].raised # "TypeError"
          /\ \A k \in 1..Len(sql_log[i].lookups) : sql_log[i].lookups[k].found

\* a run over two licences ended, and for the second licence the ids of
\* two contacts, of the add-on and of the contact-details row were looked
\* up and found
C36_Witness ==
    /\ pc = "stored"
    /\ Len(mkt_data) = MaxLicenses
    /\ \E i \in Calls, j \in Calls :
          /\ sql_log[i].run_no = run_no /\ sql_log[j].run_no = run_no
          /\ sql_log[i].ix = 1 /\ sql_log[j].ix = 1
          /\ sql_log[i].table = "pn_license_contact_details"
          /\ Len(sql_log[i].lookups) = 2
          /\ sql_log[j].table = "pn_licenses"
          /\ Len(sql_log[j].lookups) = 2
          /\ \A k \in 1..2 : sql_log[i].lookups[k].found /\ sql_log[j].lookups[k].found

=============================================================================
